---- MODULE Spec2Model ----
(***************************************************************************)
(* A model of pde_service/main.py: the request model PDERequest, the       *)
(* Crank-Nicolson Black-Scholes pricer (crank_nicolson_price), its Thomas  *)
(* solver (solve_tridiagonal), the interpolation and finite-difference     *)
(* helpers, bump_and_price and the orchestrator solve_black_scholes_pde.   *)
(*                                                                         *)
(* NUMBERS.  The program computes in IEEE-754 doubles and so does the      *)
(* model.  A double is a record [s, e, m]: the sign s (0 or 1), the        *)
(* exponent e and the significand m, held as four limbs of 14 bits, lowest *)
(* first, so that every intermediate stays below 2^31; the value of a      *)
(* finite double is (-1)^s * m * 2^e.  A normal double has 2^52 <= m <     *)
(* 2^53 and -1074 <= e <= 971; a subnormal has e = -1074 and m < 2^52; the *)
(* two zeros are the subnormals with m = 0.  The infinities have e = 972   *)
(* and m = 2^52, and NaN (one, whatever its sign and payload) has e = 972  *)
(* and another m.  Every operation computes the exact result as a natural  *)
(* number of up to eight limbs and rounds it to nearest, ties to even, as  *)
(* the hardware does: to a subnormal or a zero when it is too small, to an *)
(* infinity when it is too large.  Where the code computes in Python       *)
(* floats, an operation that raises (a power that overflows, a division    *)
(* by zero) is a Raised outcome; the same operation on a numpy scalar or   *)
(* array warns and returns an infinity or a NaN.                           *)
(***************************************************************************)
EXTENDS Integers, Sequences, FiniteSets, TLC

VARIABLES
    rq,        \* the PDERequest handed to solve_black_scholes_pde, or the raw fields
    pc,        \* the position in the code
    cfg,       \* the SolverConfig
    cn,        \* the locals of a crank_nicolson_price call
    returned,  \* what the base call returned
    out,       \* the locals of solve_black_scholes_pde
    tri,       \* the locals of a solve_tridiagonal call (SpecTri)
    fd         \* a finite_difference call (SpecFd)

vars == <<rq, pc, cfg, cn, returned, out, tri, fd>>

(***************************************************************************)
(* Evaluation.  An operator that uses an argument several times binds it   *)
(* first, as the one element of a singleton set, so that the argument is   *)
(* evaluated once however it is used: The({e(x) : x \in {a}}) is e(a).     *)
(***************************************************************************)
The(S) == CHOOSE x \in S : TRUE

(***************************************************************************)
(* Natural numbers as sequences of limbs in base 2^14, lowest limb first.  *)
(***************************************************************************)
Base == 2 ^ 14

Limb(p, j) == IF j >= 1 /\ j <= Len(p) THEN p[j] ELSE 0

\* Columns after one round of carrying: what stays in column j plus what column
\* j - 1 hands up.
Pass(cols) == [j \in 1..Len(cols) |-> (cols[j] % Base) + (Limb(cols, j - 1) \div Base)] \o <<>>

\* A carry of one enters column j: a column below overflows and every column
\* between is full.
CarryIn(c, j) == \E i \in 1..(j - 1) : c[i] >= Base /\ \A k \in (i + 1)..(j - 1) : c[k] = Base - 1

Settle(c) == [j \in 1..Len(c) |-> (c[j] + (IF CarryIn(c, j) THEN 1 ELSE 0)) % Base] \o <<>>

\* The limbs of the number whose columns are cols, each column in 0..2^31 - 1,
\* taken modulo Base^Len(cols): two rounds leave columns below Base + 9.
Carry(cols0) ==
    The({The({Settle(c) : c \in {Pass(Pass(cols))}}) : cols \in {cols0 \o <<>>}})

\* The same for columns in -2^29..2^30: Bias * Base is added to every column and
\* Bias taken from the next, which changes the number by a multiple of
\* Base^Len(cols).
Bias == 2 ^ 15

CarrySigned(cols0) ==
    The({Carry([j \in 1..Len(cols) |-> cols[j] + Bias * Base - (IF j > 1 THEN Bias ELSE 0)]) :
            cols \in {cols0 \o <<>>}})

\* The number of bits of x, 0 <= x < Base: 0 for zero.
Bits(x) == IF x = 0 THEN 0 ELSE CHOOSE b \in 1..14 : 2 ^ (b - 1) <= x /\ x < 2 ^ b

\* The highest non-zero limb of p: 0 for zero.
TopLimb(p) ==
    IF \A j \in 1..Len(p) : p[j] = 0 THEN 0
    ELSE CHOOSE j \in 1..Len(p) : p[j] # 0 /\ \A k \in (j + 1)..Len(p) : p[k] = 0

\* The number of bits of p: 0 for zero.
BitLen(p) == IF TopLimb(p) = 0 THEN 0 ELSE 14 * (TopLimb(p) - 1) + Bits(p[TopLimb(p)])

\* Limb j of p * 2^k and of floor(p / 2^k).
LimbUp(p, k, j) ==
    ((Limb(p, j - (k \div 14)) * (2 ^ (k % 14))) % Base)
    + (Limb(p, j - (k \div 14) - 1) \div (2 ^ (14 - (k % 14))))

LimbDown(p, k, j) ==
    (Limb(p, j + (k \div 14)) \div (2 ^ (k % 14)))
    + ((Limb(p, j + (k \div 14) + 1) % (2 ^ (k % 14))) * (2 ^ (14 - (k % 14))))

\* p * 2^k and floor(p / 2^k), in n limbs.
ShiftLeft(p, k, n) == [j \in 1..n |-> LimbUp(p, k, j)] \o <<>>

ShiftRight(p, k, n) == [j \in 1..n |-> LimbDown(p, k, j)] \o <<>>

\* Bit i of p (bit 0 is the lowest).
Bit(p, i) == (Limb(p, (i \div 14) + 1) \div (2 ^ (i % 14))) % 2

\* Some bit of p below bit i is set.
AnyBelow(p, i) ==
    \/ Limb(p, (i \div 14) + 1) % (2 ^ (i % 14)) # 0
    \/ \E j \in 1..(i \div 14) : Limb(p, j) # 0

(***************************************************************************)
(* Python values that are not numbers.  An optional value (x | None) is a  *)
(* record: some says whether a value is there.  An exception that leaves   *)
(* a function is the record Raised(name).                                  *)
(***************************************************************************)
None == [some |-> FALSE]

Some(x) == [some |-> TRUE, val |-> x]

Raised(e) == [raised |-> e]

IsRaised(v) == "raised" \in DOMAIN v

(***************************************************************************)
(* Doubles.                                                                *)
(***************************************************************************)
\* The exponents of the smallest and of the largest finite doubles: 2^-1074 is
\* the smallest subnormal, (2^53 - 1) * 2^971 the largest double.
MinExponent == -1074

MaxExponent == 971

Zero == [s |-> 0, e |-> MinExponent, m |-> <<0, 0, 0, 0>>]

Infinity == [s |-> 0, e |-> MaxExponent + 1, m |-> <<0, 0, 0, 1024>>]

NaN == [s |-> 0, e |-> MaxExponent + 1, m |-> <<0, 0, 0, 1536>>]

\* x == 0.0: either zero.
IsZero(x) == x.m = <<0, 0, 0, 0>>

IsFinite(x) == x.e <= MaxExponent

IsNaN(x) == x.e > MaxExponent /\ x.m[4] # 1024

IsInf(x) == x.e > MaxExponent /\ x.m[4] = 1024

\* x with the sign s.
Signed(s, x) == [x EXCEPT !.s = s]

\* A rounded result beyond the largest double is an infinity.
Overflowed(x) == IF x.e > MaxExponent THEN Signed(x.s, Infinity) ELSE x

RoundsUp(p, k) == Bit(p, k - 1) = 1 /\ (Bit(p, k) = 1 \/ AnyBelow(p, k - 1))

\* The significand q plus one; a carry out of bit 52 moves the exponent.
Increment(s, q, e) ==
    IF q = <<16383, 16383, 16383, 2047>> THEN [s |-> s, e |-> e + 1, m |-> <<0, 0, 0, 1024>>]
    ELSE [s |-> s, e |-> e, m |-> Carry(<<q[1] + 1, q[2], q[3], q[4]>>)]

RoundTo(s, p, e, k) ==
    IF RoundsUp(p, k) THEN The({Increment(s, q, e + k) : q \in {ShiftRight(p, k, 4)}})
    ELSE [s |-> s, e |-> e + k, m |-> ShiftRight(p, k, 4)]

\* The number of low bits of p, of len bits, that no double holds when p counts
\* units of 2^e: those beyond 53 bits and those below 2^MinExponent.  A negative
\* number is room to spare.
Drop(e, len) == IF len - 53 > MinExponent - e THEN len - 53 ELSE MinExponent - e

\* The double nearest (-1)^s * p * 2^e, p a value of len bits: exactly zero is
\* +0.0, a result that rounds to zero keeps its sign.
Rounded(s, p, e, len) ==
    IF len = 0 THEN Zero
    ELSE The({IF k <= 0 THEN Overflowed([s |-> s, e |-> e + k, m |-> ShiftLeft(p, -k, 4)])
              ELSE Overflowed(RoundTo(s, p, e, k)) :
                k \in {Drop(e, len)}})

Normalise(s, p0, e) == The({Rounded(s, p, e, BitLen(p)) : p \in {p0}})

(***************************************************************************)
(* Library functions.  The hardware rounds +, -, * and / correctly; exp    *)
(* and pow come from a library (numpy's kernels, the C library), which     *)
(* promises an error of a little over half a unit in the last place and    *)
(* no more: where the exact result lies close to the middle of two         *)
(* doubles, one build returns the lower and another the upper.  Such a     *)
(* function is a set here, of every double a build may return.             *)
(***************************************************************************)
\* Of the k low bits that rounding p drops, the top w.
Dropped(p, k, w) == LimbDown(p, k - w, 1) % (2 ^ w)

\* p lies within 2^-w of a unit in the last place of the middle of two doubles.
Midway(p, k, w) == Dropped(p, k, w) \in {2 ^ (w - 1) - 1, 2 ^ (w - 1)}

\* The doubles on either side of (-1)^s * p * 2^e, of whose bits k are dropped.
Either(s, p, e, k) ==
    The({{Overflowed([s |-> s, e |-> e + k, m |-> q]), Overflowed(Increment(s, q, e + k))} :
            q \in {ShiftRight(p, k, 4)}})

\* What a function accurate to 1/2 + 2^-w of a unit in the last place may
\* return when the exact result is (-1)^s * p * 2^e: the nearest double, or
\* either neighbour when the result is midway.
Library(s, p0, e, w) ==
    The({The({IF k >= w /\ Midway(p, k, w) THEN Either(s, p, e, k)
              ELSE {Rounded(s, p, e, BitLen(p))} :
                k \in {Drop(e, BitLen(p))}}) :
            p \in {p0}})

Int2Num(a) ==
    The({Normalise(IF a < 0 THEN 1 ELSE 0,
                   <<n % Base, (n \div Base) % Base, n \div (Base * Base)>>, 0) :
            n \in {IF a < 0 THEN -a ELSE a}})

One == Int2Num(1)

\* -x, and abs(x).
FNeg(x0) == The({IF IsNaN(x) THEN x ELSE Signed(1 - x.s, x) : x \in {x0}})

FAbs(x0) == The({IF IsNaN(x) THEN x ELSE Signed(0, x) : x \in {x0}})

MantLess(a, b) ==
    \/ a[4] < b[4]
    \/ a[4] = b[4] /\ \/ a[3] < b[3]
                      \/ a[3] = b[3] /\ \/ a[2] < b[2]
                                        \/ a[2] = b[2] /\ a[1] < b[1]

\* |x| < |y|, neither a NaN.
MagLess(x, y) == x.e < y.e \/ (x.e = y.e /\ MantLess(x.m, y.m))

\* a + b for finite |a| >= |b| > 0 with exponents d < 56 apart: exactly, then
\* rounded.
AddMag(a, b, d) ==
    IF a.s = b.s
    THEN Normalise(a.s, Carry([j \in 1..8 |-> LimbUp(a.m, d, j) + Limb(b.m, j)]), b.e)
    ELSE Normalise(a.s, CarrySigned([j \in 1..8 |-> LimbUp(a.m, d, j) - Limb(b.m, j)]), b.e)

AddOrdered(a, b) == IF a.e - b.e >= 56 THEN a ELSE AddMag(a, b, a.e - b.e)

\* x + y, one of them an infinity or a NaN: inf - inf is NaN.
AddSpecial(x, y) ==
    IF IsNaN(x) \/ IsNaN(y) THEN NaN
    ELSE IF IsFinite(y) THEN x
    ELSE IF IsFinite(x) \/ x.s = y.s THEN y
    ELSE NaN

\* x + y.  A sum of zeros is -0.0 only when both are.
FAdd(x0, y0) ==
    The({IF ~IsFinite(x) \/ ~IsFinite(y) THEN AddSpecial(x, y)
         ELSE IF IsZero(x) THEN (IF IsZero(y) /\ x.s # y.s THEN Zero ELSE y)
         ELSE IF IsZero(y) THEN x
         ELSE IF MagLess(x, y) THEN AddOrdered(y, x) ELSE AddOrdered(x, y) :
            x \in {x0}, y \in {y0}})

FSub(x, y) == FAdd(x, FNeg(y))

Product(a, b) ==
    <<a[1] * b[1],
      a[1] * b[2] + a[2] * b[1],
      a[1] * b[3] + a[2] * b[2] + a[3] * b[1],
      a[1] * b[4] + a[2] * b[3] + a[3] * b[2] + a[4] * b[1],
      a[2] * b[4] + a[3] * b[3] + a[4] * b[2],
      a[3] * b[4] + a[4] * b[3],
      a[4] * b[4],
      0>>

\* x * y: inf * 0 is NaN; a zero or an infinity has the sign of the product.
FMul(x0, y0) ==
    The({IF IsNaN(x) \/ IsNaN(y) THEN NaN
         ELSE IF ~IsFinite(x) \/ ~IsFinite(y)
         THEN (IF IsZero(x) \/ IsZero(y) THEN NaN ELSE Signed((x.s + y.s) % 2, Infinity))
         ELSE IF IsZero(x) \/ IsZero(y) THEN Signed((x.s + y.s) % 2, Zero)
         ELSE Normalise((x.s + y.s) % 2, Carry(Product(x.m, y.m)), x.e + y.e) :
            x \in {x0}, y \in {y0}})

\* The accuracy of the library's pow: within 1/2 + 2^-4 of a unit in the last
\* place (glibc documents 0.54).
PowAccuracy == 4

\* x ** 2 on a Python float (line 109): the library's pow(x, 2.0).  Python
\* raises OverflowError when a finite x has an infinite square; a square too
\* small for a double is a subnormal or 0.0.
Pow2(x0) ==
    The({IF IsNaN(x) THEN {NaN}
         ELSE IF IsInf(x) THEN {Infinity}
         ELSE IF IsZero(x) THEN {Zero}
         ELSE { IF IsInf(p) THEN Raised("OverflowError") ELSE p :
                  p \in Library(0, Carry(Product(x.m, x.m)), 2 * x.e, PowAccuracy) } :
            x \in {x0}})

\* r * Base - qhat * v in six limbs modulo Base^6, for values r and v of four limbs.
DivTrial(r, v, qhat) == CarrySigned([j \in 1..6 |-> Limb(r, j - 1) - qhat * Limb(v, j)])

\* The trial for the estimate qhat, or for one or two less when it is negative
\* (its top limb is then non-zero): the estimate is at most two too large.
DivFix(r, v, qhat) ==
    The({IF t[6] = 0 THEN [q |-> qhat, r |-> SubSeq(t, 1, 4)]
         ELSE The({IF t1[6] = 0 THEN [q |-> qhat - 1, r |-> SubSeq(t1, 1, 4)]
                   ELSE [q |-> qhat - 2, r |-> SubSeq(DivTrial(r, v, qhat - 2), 1, 4)] :
                     t1 \in {DivTrial(r, v, qhat - 1)}}) :
            t \in {DivTrial(r, v, qhat)}})

\* floor(r * Base / v) and the remainder, for r < v and v[4] >= Base / 2.
DivDigit(r, v) ==
    The({DivFix(r, v, IF est >= Base THEN Base - 1 ELSE est) :
            est \in {(r[4] * Base + r[3]) \div v[4]}})

\* Two more limbs of the quotient: d holds the limbs found, highest last in q.
DivTwo(d0, v) ==
    The({The({The({[q |-> <<d2.q, d1.q>> \o d.q, r |-> d2.r] : d2 \in {DivDigit(d1.r, v)}}) :
                d1 \in {DivDigit(d.r, v)}}) :
            d \in {d0}})

\* The quotient's limbs; its lowest bit is set when the division left a remainder.
Sticky(d0) ==
    The({[d.q EXCEPT ![1] = IF d.r # <<0, 0, 0, 0>> /\ @ % 2 = 0 THEN @ + 1 ELSE @] : d \in {d0}})

\* floor(u * 2^56 / v) for significands u, v moved up to 56 bits.
Quotient(u, v) ==
    Sticky(DivTwo(DivTwo(IF MantLess(u, v) THEN [q |-> <<0>>, r |-> u]
                         ELSE [q |-> <<1>>, r |-> CarrySigned([j \in 1..4 |-> u[j] - v[j]])], v), v))

\* The significand of a finite non-zero x moved up to 56 bits, and the exponent
\* that goes with it: a subnormal's significand is shorter than a normal's.
Widened(x) ==
    IF x.m[4] >= 1024 THEN [m |-> ShiftLeft(x.m, 3, 4), e |-> x.e - 3]
    ELSE The({[m |-> ShiftLeft(x.m, 56 - len, 4), e |-> x.e - (56 - len)] :
                len \in {BitLen(x.m)}})

\* x / y on numpy scalars and arrays, which never raises: 0/0 and inf/inf are
\* NaN, x/0 is an infinity.  On Python floats the same when y is not zero.
FDiv(x0, y0) ==
    The({IF IsNaN(x) \/ IsNaN(y) THEN NaN
         ELSE IF ~IsFinite(x) THEN (IF IsFinite(y) THEN Signed((x.s + y.s) % 2, Infinity) ELSE NaN)
         ELSE IF ~IsFinite(y) THEN Signed((x.s + y.s) % 2, Zero)
         ELSE IF IsZero(y) THEN (IF IsZero(x) THEN NaN ELSE Signed((x.s + y.s) % 2, Infinity))
         ELSE IF IsZero(x) THEN Signed((x.s + y.s) % 2, Zero)
         ELSE The({Normalise((x.s + y.s) % 2, Quotient(u.m, v.m), u.e - v.e - 56) :
                     u \in {Widened(x)}, v \in {Widened(y)}}) :
            x \in {x0}, y \in {y0}})

\* -1, 0 or 1 as x is below, equal to or above zero, x not a NaN.
Sign(x) == IF IsZero(x) THEN 0 ELSE IF x.s = 0 THEN 1 ELSE -1

\* x < y: false when either is a NaN; -0.0 is not below 0.0.
FLess(x0, y0) ==
    The({IF IsNaN(x) \/ IsNaN(y) THEN FALSE
         ELSE IF Sign(x) # Sign(y) THEN Sign(x) < Sign(y)
         ELSE IF Sign(x) = 0 THEN FALSE
         ELSE IF Sign(x) > 0 THEN MagLess(x, y) ELSE MagLess(y, x) :
            x \in {x0}, y \in {y0}})

Frac(a, b) == FDiv(Int2Num(a), Int2Num(b))

\* x <= y: false when either is a NaN.
FLeq(x0, y0) == The({~IsNaN(x) /\ ~IsNaN(y) /\ ~FLess(y, x) : x \in {x0}, y \in {y0}})

\* x == y: false when either is a NaN; -0.0 equals 0.0.
FEq(x, y) == FLeq(x, y) /\ FLeq(y, x)

\* Python's max(x, y): y when y > x, x otherwise (so x when either is a NaN).
FMax(x0, y0) == The({IF FLess(x, y) THEN y ELSE x : x \in {x0}, y \in {y0}})

\* np.maximum(x, y) and the step of np.max: a NaN when either is, else x when
\* x >= y.
NpMaximum(x0, y0) ==
    The({IF IsNaN(x) THEN x ELSE IF FLeq(y, x) THEN x ELSE y : x \in {x0}, y \in {y0}})
(***************************************************************************)
(* np.exp.  |x| is reduced to k * ln 2 + r with 0 <= r < ln 2 in fixed     *)
(* point with 84 fractional bits, e^r is summed from its series to 25      *)
(* terms in the same fixed point, and 2^k * e^r is handed to Library: the  *)
(* double nearest e^x, or both neighbours of e^x when it is midway.        *)
(***************************************************************************)
\* a < b for naturals of the same number of limbs.
NatLess(a, b) == \E j \in 1..Len(a) : a[j] < b[j] /\ \A k \in (j + 1)..Len(a) : a[k] = b[k]

\* floor(ln 2 * 2^84), in eight limbs.
Ln2 == <<7739, 10994, 3961, 8007, 8575, 11356, 0, 0>>

\* floor(|x| * 2^84) in eight limbs, for |x| < 2^12.
Fixed(x) ==
    IF x.e + 84 >= 0 THEN ShiftLeft(x.m, x.e + 84, 8) ELSE ShiftRight(x.m, -(x.e + 84), 8)

\* floor(|x| * 2^14 / 11357): the multiple of ln 2 in |x|, or one or two less.
Multiple(f) == (f[7] * Base + f[6]) \div 11357

Less(f, k) == CarrySigned([j \in 1..8 |-> f[j] - k * Ln2[j]])

\* |x| = k * ln 2 + r with 0 <= r < ln 2.
Reduce(f0) ==
    The({IF NatLess(r, Ln2) THEN [k |-> Multiple(f), r |-> r]
         ELSE IF NatLess(Less(r, 1), Ln2) THEN [k |-> Multiple(f) + 1, r |-> Less(r, 1)]
         ELSE [k |-> Multiple(f) + 2, r |-> Less(r, 2)] :
            f \in {f0}, r \in {Less(f0, Multiple(f0))}})

\* Column j of r * t, r of six limbs.
Column(r, t, j) ==
    r[1] * Limb(t, j) + r[2] * Limb(t, j - 1) + r[3] * Limb(t, j - 2)
    + r[4] * Limb(t, j - 3) + r[5] * Limb(t, j - 4) + r[6] * Limb(t, j - 5)

\* Base^k modulo n, for n <= 25.
Weight(k, n) == ((Base % n) ^ k) % n

\* The number made of limbs j and up of p, modulo n.
Rem(p, j, n) ==
    (Limb(p, j) + Limb(p, j + 1) * Weight(1, n) + Limb(p, j + 2) * Weight(2, n)
     + Limb(p, j + 3) * Weight(3, n) + Limb(p, j + 4) * Weight(4, n)
     + Limb(p, j + 5) * Weight(5, n) + Limb(p, j + 6) * Weight(6, n)) % n

\* 1 + r * t / n in fixed point: the product loses its low 84 bits, is divided
\* by n, and 2^84 is added.
HornerStep(r, t, n) ==
    The({[j \in 1..7 |-> ((Rem(p, j + 7, n) * Base + p[j + 6]) \div n) + (IF j = 7 THEN 1 ELSE 0)] \o <<>> :
            p \in {Carry([j \in 1..13 |-> Column(r, t, j)])}})

\* The steps for n = hi down to lo of 1 + r/1 * (1 + r/2 * (1 + ... (1 + r/25))),
\* from the innermost term out.
RECURSIVE Horner(_, _, _, _)
Horner(r, t0, hi, lo) ==
    The({IF hi = lo THEN HornerStep(r, t, hi)
         ELSE Horner(r, Horner(r, t, hi, ((hi + lo) \div 2) + 1), (hi + lo) \div 2, lo) :
            t \in {t0}})

\* The accuracy of the library's exp: within 1/2 + 2^-6 of a unit in the last
\* place (glibc documents 0.511, its fused build 0.509).
ExpAccuracy == 6

\* e^x for the reduced |x|: a negative x = -(k * ln 2 + r) is (k + 1) * ln 2
\* short of ln 2 - r.  The lowest bit of the sum is set: e^r is never a double.
ExpOf(k0) ==
    The({The({Library(0, [t EXCEPT ![1] = 2 * (@ \div 2) + 1], k.k - 84, ExpAccuracy) :
                t \in {Horner(k.r, <<0, 0, 0, 0, 0, 0, 1>>, 25, 1)}}) :
            k \in {k0}})

Negated(red) ==
    IF red.r = <<0, 0, 0, 0, 0, 0, 0, 0>> THEN [k |-> -red.k, r |-> red.r]
    ELSE [k |-> -(red.k + 1), r |-> CarrySigned([j \in 1..8 |-> Ln2[j] - red.r[j]])]

\* |x| < 2^-55: e^x is within a quarter of a unit in the last place of 1.
ExpIsOne(x) == x.e <= -108

\* |x| >= 2^11: e^x is beyond the largest double, or below half the smallest.
ExpIsOut(x) == x.e >= -41

\* np.exp(x): the doubles a build may return.  exp(0.0) is 1.0 in every build;
\* a result beyond the largest double is inf (numpy warns and goes on), one
\* below the smallest normal a subnormal or 0.0.
Exp(x0) ==
    The({IF IsNaN(x) THEN {NaN}
         ELSE IF IsInf(x) \/ ExpIsOut(x) THEN {IF x.s = 0 THEN Infinity ELSE Zero}
         ELSE IF IsZero(x) \/ ExpIsOne(x) THEN {One}
         ELSE IF x.s = 1 THEN ExpOf(Negated(Reduce(Fixed(x))))
         ELSE ExpOf(Reduce(Fixed(x))) :
            x \in {x0}})

(***************************************************************************)
(* solve_tridiagonal (main.py 195-229).  The locals of one call are a      *)
(* record; TriStart is the code up to the first loop, TriForward one       *)
(* iteration of the forward sweep, TriBack one iteration of the back       *)
(* substitution.  Sequences are 1-based: index i of the code is i + 1.     *)
(* pivots lists, for every division of the sweep, the raw denominator and  *)
(* the one the division used.                                              *)
(***************************************************************************)
\* The pivot floor 1e-12 (lines 211-212, 219-220).
PivotFloor == FDiv(One, FMul(Int2Num(1000000), Int2Num(1000000)))

\* A guard that forgets the sign: every small denominator becomes +1e-12.
GuardDenomUnsigned(denom0) ==
    The({IF FLess(FAbs(denom), PivotFloor) THEN PivotFloor ELSE denom : denom \in {denom0}})

\* Lines 211-212 and 219-220: a denominator of magnitude below the floor is
\* replaced by the floor, with the sign of the denominator (zero is positive).
GuardDenom(denom0) ==
    The({IF FLess(FAbs(denom), PivotFloor)
         THEN IF FLeq(Zero, denom) THEN PivotFloor ELSE FNeg(PivotFloor)
         ELSE denom :
            denom \in {denom0}})

\* np.zeros(n).
Zeros(n) == [i \in 1..n |-> Zero]

\* Lines 206-215, the system having n >= 1 rows and the first division using denom.
TriFirst(lower, diag, upper, rhs, n, denom) ==
    [pc |-> "forward", n |-> n, lower |-> lower, diag |-> diag, upper |-> upper, rhs |-> rhs,
     c_prime |-> IF n > 1 THEN [Zeros(n) EXCEPT ![1] = FDiv(upper[1], denom)] ELSE Zeros(n),
     d_prime |-> [Zeros(n) EXCEPT ![1] = FDiv(rhs[1], denom)],
     solution |-> Zeros(n), i |-> 1,
     pivots |-> <<[raw |-> diag[1], used |-> denom]>>]

\* Lines 202-215.
TriStart(lower0, diag0, upper0, rhs0) ==
    The({IF Len(diag) = 0
         THEN [pc |-> "done", n |-> 0, lower |-> lower, diag |-> diag, upper |-> upper,
               rhs |-> rhs, c_prime |-> <<>>, d_prime |-> <<>>, solution |-> <<>>,
               i |-> 0, pivots |-> <<>>]
         ELSE The({TriFirst(lower, diag, upper, rhs, Len(diag), denom) :
                     denom \in {GuardDenom(diag[1])}}) :
            lower \in {lower0}, diag \in {diag0}, upper \in {upper0}, rhs \in {rhs0}})

\* Lines 218-223: row k (1-based) of the sweep, its raw denominator and the one used.
TriEliminate(st, k, raw, denom) ==
    [st EXCEPT
        !.c_prime = IF st.i < st.n - 1
                    THEN [st.c_prime EXCEPT ![k] = FDiv(st.upper[k], denom)]
                    ELSE st.c_prime,
        !.d_prime = [st.d_prime EXCEPT ![k] =
                        FDiv(FSub(st.rhs[k], FMul(st.lower[k], st.d_prime[k - 1])), denom)],
        !.pivots = Append(st.pivots, [raw |-> raw, used |-> denom]),
        !.i = st.i + 1]

\* Lines 217-225: iteration i of the sweep; past the last one, line 225.
TriForward(st0) ==
    The({IF st.i >= st.n
         THEN [st EXCEPT !.pc = "back", !.i = st.n - 2,
                         !.solution = [st.solution EXCEPT ![st.n] = st.d_prime[st.n]]]
         ELSE The({The({TriEliminate(st, st.i + 1, raw, denom) : denom \in {GuardDenom(raw)}}) :
                     raw \in {FSub(st.diag[st.i + 1],
                                   FMul(st.lower[st.i + 1], st.c_prime[st.i]))}}) :
            st \in {st0}})

\* A back substitution that adds the eliminated term instead of subtracting it.
TriBackAdding(st0) ==
    The({IF st.i < 0
         THEN [st EXCEPT !.pc = "done"]
         ELSE [st EXCEPT
                 !.solution = [st.solution EXCEPT ![st.i + 1] =
                                 FAdd(st.d_prime[st.i + 1],
                                      FMul(st.c_prime[st.i + 1], st.solution[st.i + 2]))],
                 !.i = st.i - 1] :
            st \in {st0}})

\* Lines 226-229: iteration i of the back substitution; past the last one, the return.
TriBack(st0) ==
    The({IF st.i < 0
         THEN [st EXCEPT !.pc = "done"]
         ELSE [st EXCEPT
                 !.solution = [st.solution EXCEPT ![st.i + 1] =
                                 FSub(st.d_prime[st.i + 1],
                                      FMul(st.c_prime[st.i + 1], st.solution[st.i + 2]))],
                 !.i = st.i - 1] :
            st \in {st0}})

\* One iteration of whichever loop the call is in.
TriStep(st0) ==
    The({IF st.pc = "forward" THEN TriForward(st)
         ELSE IF st.pc = "back" THEN TriBack(st)
         ELSE st :
            st \in {st0}})

\* k iterations, taken as two halves.
RECURSIVE TriSteps(_, _)
TriSteps(st0, k) ==
    IF k <= 0 THEN st0
    ELSE IF k = 1 THEN TriStep(st0)
    ELSE The({TriSteps(st, k - k \div 2) : st \in {TriSteps(st0, k \div 2)}})

\* The call to its return: n iterations of the sweep (the last one line 225)
\* and n of the back substitution (the last one the return).
TriRun(st0) == The({TriSteps(st, 2 * st.n) : st \in {st0}})

solve_tridiagonal(lower, diag, upper, rhs) == TriRun(TriStart(lower, diag, upper, rhs)).solution

(***************************************************************************)
(* Library functions the program calls.                                    *)
(***************************************************************************)
\* Node i (0-based) of np.linspace(0.0, stop, n + 1) before the last node is
\* set: i * step, or (i / n) * stop when the step is zero, plus the start 0.0.
LinspaceNode(stop, n, step, i) ==
    FAdd(IF IsZero(step) THEN FMul(FDiv(Int2Num(i), Int2Num(n)), stop)
         ELSE FMul(Int2Num(i), step),
         Zero)

\* np.linspace(0.0, stop, n + 1) for n >= -1 (a negative number of nodes is a
\* ValueError): n + 1 nodes spaced step = stop / n apart, the last of two or
\* more being stop itself; the one node of n = 0 is 0 * stop + 0.0.
Linspace(stop0, n0) ==
    The({IF n = 0 THEN <<FAdd(FMul(Zero, stop), Zero)>>
         ELSE The({[i \in 1..(n + 1) |->
                      IF i = n + 1 THEN stop ELSE LinspaceNode(stop, n, step, i - 1)] \o <<>> :
                     step \in {FDiv(stop, Int2Num(n))}}) :
            stop \in {stop0}, n \in {n0}})

\* The order np.searchsorted keeps doubles in: a NaN comes after every number.
SortsBefore(a, b) == FLess(a, b) \/ (IsNaN(b) /\ ~IsNaN(a))

\* The bisection of np.searchsorted between lo and hi (0-based, hi excluded).
RECURSIVE Bisect(_, _, _, _)
Bisect(grid, x, lo, hi) ==
    IF lo >= hi THEN lo
    ELSE The({IF SortsBefore(grid[mid + 1], x) THEN Bisect(grid, x, mid + 1, hi)
              ELSE Bisect(grid, x, lo, mid) :
                mid \in {lo + (hi - lo) \div 2}})

\* np.searchsorted(grid, x) (side 'left'): on a sorted grid the number of nodes
\* strictly below x.
SearchSorted(grid0, x0) ==
    The({Bisect(grid, x, 0, Len(grid)) : grid \in {grid0}, x \in {x0}})

\* np.clip on integers.
Clip(i0, lo, hi) == The({IF i < lo THEN lo ELSE IF i > hi THEN hi ELSE i : i \in {i0}})

\* The largest magnitude among v[lo..hi], lo <= hi, taken as two halves: a NaN
\* when any entry is.
RECURSIVE NormFrom(_, _, _)
NormFrom(v, lo, hi) ==
    IF lo = hi THEN FAbs(v[lo])
    ELSE The({NpMaximum(NormFrom(v, lo, mid), NormFrom(v, mid + 1, hi)) :
                mid \in {(lo + hi) \div 2}})

\* np.linalg.norm(v, ord=np.inf) of a non-empty v: np.abs(v).max().
NormInf(v0) == The({NormFrom(v, 1, Len(v)) : v \in {v0}})

\* The contents np.empty_like leaves in a fresh array: no number at all.  Any
\* arithmetic on it would stop TLC, so no run of the model reads it.
Uninit == [uninit |-> TRUE]

(***************************************************************************)
(* crank_nicolson_price (main.py 71-192).  Its locals are one record.      *)
(* Arrays that the code aliases live in heap, a map from array identities  *)
(* to contents; v_curr, v_next and first_step_values hold identities       *)
(* (NoArray for Python's None), so that a swap of references and a copy    *)
(* are different things in the model as they are in the program.           *)
(***************************************************************************)
\* option_type, as the characters of the str: "call" and "put".
Call == <<99, 97, 108, 108>>

Put == <<112, 117, 116>>

NoArray == 0

\* An assignment without the copy: the same array under a second name.
ArrayAlias(heap, id) == [heap |-> heap, ref |-> id]

\* ndarray.copy(): a fresh array with the same contents.
ArrayCopy(heap, id) ==
    The({[heap |-> [k \in (DOMAIN heap) \cup {new} |-> IF k = new THEN heap[id] ELSE heap[k]],
          ref  |-> new] :
            new \in {Cardinality(DOMAIN heap) + 1}})

\* The boundary values the loop pins (lines 143-152) at time-to-expiry tau:
\* <<V(0, tau), V(s_max, tau)>>, one pair for every value the calls of np.exp
\* may return.
BoundaryAt(option_type, s_max, strike, r, q, tau0) ==
    The({IF option_type = Call
         THEN {<<Zero, FSub(FMul(s_max, exp_q), FMul(strike, exp_r))>> :
                  exp_q \in Exp(FMul(FNeg(q), tau)), exp_r \in Exp(FMul(FNeg(r), tau))}
         ELSE {<<FMul(strike, exp_r), Zero>> : exp_r \in Exp(FMul(FNeg(r), tau))} :
            tau \in {tau0}})

\* A payoff without the floor at zero.
PayoffUnfloored(option_type, s_grid0, strike) ==
    The({[i \in 1..Len(s_grid) |->
            IF option_type = Call THEN FSub(s_grid[i], strike) ELSE FSub(strike, s_grid[i])] :
            s_grid \in {s_grid0}})

\* Lines 93-96.
Payoff(option_type, s_grid0, strike) ==
    The({[i \in 1..Len(s_grid) |->
            IF option_type = Call
            THEN NpMaximum(FSub(s_grid[i], strike), Zero)
            ELSE NpMaximum(FSub(strike, s_grid[i]), Zero)] \o <<>> :
            s_grid \in {s_grid0}})

\* Lines 82-91: the grid, for n_space >= -1, n_space # 0 and n_time # 0.
CnGrid(spot, strike, expiry, config) ==
    The({[n_space |-> config.n_space, n_time |-> config.n_time, s_max |-> s_max,
          d_s    |-> FDiv(s_max, Int2Num(config.n_space)),
          d_tau  |-> FDiv(expiry, Int2Num(config.n_time)),
          s_grid |-> Linspace(s_max, config.n_space)] :
            s_max \in {FMul(config.s_max_multiplier, FMax(FMax(spot, strike), One))}})

\* The two terms of lines 109-110 at interior node i (s_vals of lines 105-106):
\* sigma_sq * s_vals^2 / d_s^2 and (r - q) * s_vals / d_s.  s_vals ** 2 is
\* numpy's square of an array, a product; d_s ** 2 is d_s_sq.
CnTerms(g, sigma_sq, d_s_sq, drift_rate, i) ==
    The({[diffusion |-> FDiv(FMul(sigma_sq, FMul(s_val, s_val)), d_s_sq),
          drift     |-> FDiv(FMul(drift_rate, s_val), g.d_s)] :
            s_val \in {FMul(Int2Num(i), g.d_s)}})

\* Lines 108-119 from the terms t and the factors 0.25 * d_tau and -0.5 * d_tau.
CnAlphaBetaGamma(g, t, quarter, half, r) ==
    [alpha |-> [i \in 1..(g.n_space - 1) |-> FMul(quarter, FSub(t[i].diffusion, t[i].drift))],
     beta  |-> [i \in 1..(g.n_space - 1) |-> FMul(half, FAdd(t[i].diffusion, r))],
     gamma |-> [i \in 1..(g.n_space - 1) |-> FMul(quarter, FAdd(t[i].diffusion, t[i].drift))]]

\* Lines 101-119: alpha, beta and gamma, for every value d_s ** 2 may have (the
\* same value at each of its three uses: pow is a function), or the
\* OverflowError d_s ** 2 raises on line 109.
CnCoefficients(g, volatility, r, q) ==
    The({{IF IsRaised(d_s_sq) THEN d_s_sq
          ELSE The({CnAlphaBetaGamma(g, t, quarter, half, r) :
                      t \in {[i \in 1..(g.n_space - 1) |->
                                CnTerms(g, sigma_sq, d_s_sq, drift_rate, i)]}}) :
             d_s_sq \in Pow2(g.d_s)} :
            sigma_sq \in {FMul(volatility, volatility)},
            drift_rate \in {FSub(r, q)},
            quarter \in {FMul(Frac(1, 4), g.d_tau)}, half \in {FMul(Frac(-1, 2), g.d_tau)}})

\* Lines 93-99 and 121-137: the locals as the loop finds them, on grid g with
\* coefficients k and payoff array payoff.
CnLocals(option_type, spot, strike, expiry, r, q, config, g, k, payoff) ==
    [option_type |-> option_type, spot |-> spot, strike |-> strike, r |-> r, q |-> q,
     config |-> config,
     n_space |-> g.n_space, n_time |-> g.n_time,
     s_max |-> g.s_max, d_s |-> g.d_s, d_tau |-> g.d_tau, s_grid |-> g.s_grid,
     A |-> [i \in 1..(g.n_space - 1) |-> FNeg(k.alpha[i])],
     B |-> [i \in 1..(g.n_space - 1) |-> FSub(One, k.beta[i])],
     C |-> [i \in 1..(g.n_space - 1) |-> FNeg(k.gamma[i])],
     D |-> k.alpha,
     E |-> [i \in 1..(g.n_space - 1) |-> FAdd(One, k.beta[i])],
     F |-> k.gamma,
     lower |-> [i \in 1..(g.n_space - 1) |-> IF i = 1 THEN Zero ELSE FNeg(k.alpha[i])],
     diag  |-> [i \in 1..(g.n_space - 1) |-> FSub(One, k.beta[i])],
     upper |-> [i \in 1..(g.n_space - 1) |-> IF i = g.n_space - 1 THEN Zero ELSE FNeg(k.gamma[i])],
     rhs |-> Zeros(g.n_space - 1), rhs_vector |-> Zeros(g.n_space - 1),
     heap |-> <<payoff, payoff, [i \in 1..(g.n_space + 1) |-> Uninit]>>,
     v_curr |-> 2, v_next |-> 3, first_step_values |-> NoArray,
     residual_norm |-> Zero, norm |-> Zero,
     step |-> 0, tau |-> Zero, tau_next |-> Zero,
     lower_bc_next |-> Zero, upper_bc_next |-> Zero,
     \* History, for the properties only: each step's residual and the value of
     \* residual_norm after it, the contents and time of every capture, the array
     \* the solver wrote last.
     expiry |-> expiry, norms |-> <<>>, accumulated |-> <<>>,
     captured |-> <<>>, captured_tau |-> <<>>, last_written |-> NoArray]

\* What stops the function before line 92: n_space = 0 divides a Python float
\* by zero on line 88 and n_time = 0 on line 89; n_space < -1 asks np.linspace
\* (line 91) for a negative number of nodes.
CnRejects(config) ==
    IF config.n_space = 0 THEN Raised("ZeroDivisionError")
    ELSE IF config.n_time = 0 THEN Raised("ZeroDivisionError")
    ELSE IF config.n_space < -1 THEN Raised("ValueError")
    ELSE None

\* Lines 82-137: everything before the time loop.  The outcomes: the exception
\* (one of the above, the OverflowError of line 109, or the ValueError of
\* np.zeros(-2) on line 129 when n_space = -1), or the locals for each value
\* of d_s ** 2.
CnSetup(option_type, spot, strike, expiry, risk_free_rate, dividend_yield, volatility, config) ==
    IF CnRejects(config) # None THEN {CnRejects(config)}
    ELSE The({The({{IF IsRaised(k) THEN k
                    ELSE IF config.n_space < 0 THEN Raised("ValueError")
                    ELSE CnLocals(option_type, spot, strike, expiry, risk_free_rate,
                                  dividend_yield, config, g, k, payoff) :
                      k \in CnCoefficients(g, volatility, risk_free_rate, dividend_yield)} :
                     payoff \in {Payoff(option_type, g.s_grid, strike)}}) :
                g \in {CnGrid(spot, strike, expiry, config)}})

\* Line 139: the loop runs another step.
CnContinues(c) == ~IsRaised(c) /\ c.step < c.n_time

\* Lines 143-152 at times tau and tau_next: the outcomes.
CnPinAt(c, tau, tau_next) ==
    {[c EXCEPT !.tau = tau, !.tau_next = tau_next,
               !.heap[c.v_curr][1] = now[1], !.heap[c.v_curr][c.n_space + 1] = now[2],
               !.lower_bc_next = next[1], !.upper_bc_next = next[2]] :
        now  \in BoundaryAt(c.option_type, c.s_max, c.strike, c.r, c.q, tau),
        next \in BoundaryAt(c.option_type, c.s_max, c.strike, c.r, c.q, tau_next)}

\* Lines 140-152: the times of this step, the pin of v_curr, the next boundary
\* values: the outcomes.
CnPin(c0) ==
    The({The({CnPinAt(c, tau, FAdd(tau, c.d_tau)) : tau \in {FMul(Int2Num(c.step), c.d_tau)}}) :
            c \in {c0}})

\* Lines 154-158: D * v[:-2] + E * v[1:-1] + F * v[2:].
CnExplicit(c, v) ==
    [i \in 1..(c.n_space - 1) |->
        FAdd(FAdd(FMul(c.D[i], v[i]), FMul(c.E[i], v[i + 1])), FMul(c.F[i], v[i + 2]))]

\* Lines 160-161 on the vector rhs.
CnBoundaryTerms(c, rhs0) ==
    The({[r1 EXCEPT ![c.n_space - 1] = FSub(@, FMul(c.C[c.n_space - 1], c.upper_bc_next))] :
            r1 \in {[rhs0 EXCEPT ![1] = FSub(@, FMul(c.A[1], c.lower_bc_next))]}})

\* Lines 154-163: the explicit right-hand side, less the implicit boundary terms.
\* On a grid of one cell rhs is empty and rhs[0] (line 160) is out of range.
CnRhs(c0) ==
    The({IF c.n_space = 1 THEN Raised("IndexError")
         ELSE The({[c EXCEPT !.rhs = rhs, !.rhs_vector = rhs] :
                     rhs \in {CnBoundaryTerms(c, CnExplicit(c, c.heap[c.v_curr]))}}) :
            c \in {c0}})

\* Lines 165-166.
CnPinNext(c0) ==
    The({[c EXCEPT !.heap[c.v_next][1] = c.lower_bc_next,
                   !.heap[c.v_next][c.n_space + 1] = c.upper_bc_next] :
            c \in {c0}})

\* An interior write one place to the left: v_next[:-2] in place of v_next[1:-1].
CnSolveShifted(c0) ==
    The({The({[c EXCEPT !.heap[c.v_next] =
                          [i \in 1..(c.n_space + 1) |-> IF i >= c.n_space THEN @[i] ELSE x[i]],
                      !.last_written = c.v_next] :
                x \in {solve_tridiagonal(c.lower, c.diag, c.upper, c.rhs_vector)}}) :
            c \in {c0}})

\* Lines 168-169: the interior of v_next is the solver's output.
CnSolve(c0) ==
    The({The({[c EXCEPT !.heap[c.v_next] =
                          [i \in 1..(c.n_space + 1) |->
                              IF i = 1 \/ i = c.n_space + 1 THEN @[i] ELSE x[i - 1]],
                      !.last_written = c.v_next] :
                x \in {solve_tridiagonal(c.lower, c.diag, c.upper, c.rhs_vector)}}) :
            c \in {c0}})

\* Lines 171-172.
CnCapture(c0) ==
    The({IF c.first_step_values = NoArray
         THEN The({[c EXCEPT !.heap = cp.heap, !.first_step_values = cp.ref,
                             !.captured = Append(@, c.heap[c.v_next]),
                             !.captured_tau = Append(@, c.tau_next)] :
                     cp \in {ArrayCopy(c.heap, c.v_next)}})
         ELSE c :
            c \in {c0}})

\* An accumulation that keeps the last step's residual.
AccumulateLast(residual_norm, norm) == norm

\* The accumulation of line 179: max(residual_norm, norm).
Accumulate(residual_norm, norm) == FMax(residual_norm, norm)

\* Lines 174-178: A * v[:-2] + B * v[1:-1] + C * v[2:].
CnImplicit(c, v) ==
    [i \in 1..(c.n_space - 1) |->
        FAdd(FAdd(FMul(c.A[i], v[i]), FMul(c.B[i], v[i + 1])), FMul(c.C[i], v[i + 2]))]

\* Line 181: the norm of lhs - rhs_vector.
CnNorm(c, lhs) == NormInf([i \in 1..(c.n_space - 1) |-> FSub(lhs[i], c.rhs_vector[i])])

\* Lines 174-182.
CnResidual(c0) ==
    The({The({The({[c EXCEPT !.norm = norm, !.norms = Append(@, norm),
                             !.residual_norm = acc, !.accumulated = Append(@, acc)] :
                     acc \in {Accumulate(c.residual_norm, norm)}}) :
                norm \in {CnNorm(c, lhs) : lhs \in {CnImplicit(c, c.heap[c.v_next])}}}) :
            c \in {c0}})

\* Line 184, and the loop's advance.
CnSwap(c0) ==
    The({[c EXCEPT !.v_curr = c.v_next, !.v_next = c.v_curr, !.step = c.step + 1] : c \in {c0}})

\* Lines 165-184: the rest of an iteration whose right-hand side is built.
CnFinishStep(c) == CnSwap(CnResidual(CnCapture(CnSolve(CnPinNext(c)))))

\* The rest of an iteration whose boundaries are pinned (lines 154-184), or the
\* exception that ends it.
CnAfterPin(p) == The({IF IsRaised(c) THEN c ELSE CnFinishStep(c) : c \in {CnRhs(p)}})

\* One whole iteration of the loop (lines 140-184): the outcomes.
CnStep(c0) == {CnAfterPin(p) : p \in CnPin(c0)}

\* n iterations, taken as two halves: the outcomes.
RECURSIVE CnSteps(_, _)
CnSteps(c0, n) ==
    IF n <= 0 \/ IsRaised(c0) THEN {c0}
    ELSE IF n = 1 THEN CnStep(c0)
    ELSE UNION {CnSteps(c, n - n \div 2) : c \in CnSteps(c0, n \div 2)}

\* Lines 139-184: the loop, from the locals c0 the setup left: the outcomes.
CnLoop(c0) == The({IF IsRaised(c) THEN {c} ELSE CnSteps(c, c.n_time) : c \in {c0}})

\* Lines 186-192: what the function returns.
CnReturn(c0) ==
    The({The({[s_grid |-> c.s_grid, solution |-> solution,
               first_step |-> IF c.first_step_values # NoArray
                              THEN c.heap[c.first_step_values] ELSE solution,
               residual_norm |-> c.residual_norm,
               boundary_spread |-> FAdd(FAbs(solution[1]), FAbs(solution[Len(solution)]))] :
                solution \in {c.heap[c.v_curr]}}) :
            c \in {c0}})

\* Lines 71-192: the outcomes, each the locals at the return or the exception
\* raised.
CnRun(option_type, spot, strike, expiry, risk_free_rate, dividend_yield, volatility, config) ==
    UNION {CnLoop(c) : c \in CnSetup(option_type, spot, strike, expiry, risk_free_rate,
                                      dividend_yield, volatility, config)}

\* Lines 71-192: the outcomes, each the returned tuple or the exception raised.
crank_nicolson_price(option_type, spot, strike, expiry, risk_free_rate, dividend_yield, volatility, config) ==
    {IF IsRaised(c) THEN c ELSE CnReturn(c) :
        c \in CnRun(option_type, spot, strike, expiry, risk_free_rate, dividend_yield,
                    volatility, config)}

(***************************************************************************)
(* interpolate_value, finite_difference, bump_and_price (main.py 232-288). *)
(***************************************************************************)
\* np.interp's linear search on a grid of at most four nodes, from node i
\* (0-based): the last node from which the nodes up to it are all at or below
\* key.
RECURSIVE LinearSearch(_, _, _)
LinearSearch(arr, key, i) ==
    IF i < Len(arr) /\ FLeq(arr[i + 1], key) THEN LinearSearch(arr, key, i + 1) ELSE i - 1

\* np.interp's bisection between imin and imax (0-based, imax excluded).
RECURSIVE InterpBisect(_, _, _, _)
InterpBisect(arr, key, imin, imax) ==
    IF imin >= imax THEN imin - 1
    ELSE The({IF FLeq(arr[imid + 1], key) THEN InterpBisect(arr, key, imid + 1, imax)
              ELSE InterpBisect(arr, key, imin, imid) :
                imid \in {imin + (imax - imin) \div 2}})

\* np.interp's search on a grid of five nodes or more around the node guess
\* (0-based): the three cells at the guess are tried first, then a bisection of
\* the eight nodes beyond or of the rest.
SearchNear(arr, key, len, guess) ==
    IF FLess(key, arr[guess + 1])
    THEN IF FLess(key, arr[guess])
         THEN InterpBisect(arr, key,
                           IF guess > 8 /\ FLeq(arr[guess - 8 + 1], key) THEN guess - 8 ELSE 0,
                           guess - 1)
         ELSE guess - 1
    ELSE IF FLess(key, arr[guess + 2]) THEN guess
    ELSE IF FLess(key, arr[guess + 3]) THEN guess + 1
    ELSE InterpBisect(arr, key, guess + 2,
                      IF guess < len - 8 - 1 /\ FLess(key, arr[guess + 8 + 1])
                      THEN guess + 8 ELSE len)

\* np.interp's search (binary_search_with_guess) for a key that is not a NaN:
\* the 0-based index of the cell key lies in, -1 below the grid and len above
\* it.  The first guess, node 0, is raised to node 1.  On a sorted grid the
\* result is the last node at or below key.
InterpSearch(arr, key, len) ==
    IF FLess(arr[len], key) THEN len
    ELSE IF FLess(key, arr[1]) THEN -1
    ELSE IF len <= 4 THEN LinearSearch(arr, key, 1)
    ELSE SearchNear(arr, key, len, 1)

\* np.interp inside the cell from node j (1-based; the cell's slope is slope):
\* the slope times the offset from node j plus the value there; when that is a
\* NaN the same from node j + 1, and when that is one too, the value at node j if
\* node j + 1 has the same.
InterpolateFrom(s_grid, values, spot, j, slope) ==
    The({IF ~IsNaN(near) THEN near
         ELSE The({IF IsNaN(far) /\ FEq(values[j], values[j + 1]) THEN values[j] ELSE far :
                     far \in {FAdd(FMul(slope, FSub(spot, s_grid[j + 1])), values[j + 1])}}) :
            near \in {FAdd(FMul(slope, FSub(spot, s_grid[j])), values[j])}})

\* np.interp in the cell from node j (1-based), the last node excepted: the
\* value at the node when the point is on it.
InterpolateIn(s_grid, values, spot, j) ==
    IF FEq(s_grid[j], spot) THEN values[j]
    ELSE InterpolateFrom(s_grid, values, spot, j,
                         FDiv(FSub(values[j + 1], values[j]), FSub(s_grid[j + 1], s_grid[j])))

\* np.interp at the cell index j (0-based) the search returned.
InterpolateAt(s_grid, values, spot, j) ==
    IF j = -1 THEN values[1]
    ELSE IF j >= Len(s_grid) - 1 THEN values[Len(s_grid)]
    ELSE InterpolateIn(s_grid, values, spot, j + 1)

\* The number of nodes of a sorted grid at or below x.
CountLeq(grid, x) == Cardinality({i \in 1..Len(grid) : FLeq(grid[i], x)})

\* Lines 232-233: np.interp, piecewise linear, clamped to the end values.  An
\* empty grid, or one whose length is not that of values, is a ValueError; on
\* a grid of one node the value there, whatever the point (below the node,
\* above it, on it or NaN); on a longer grid a NaN is answered with itself.
interpolate_value(s_grid0, values0, spot0) ==
    The({IF Len(s_grid) = 0 \/ Len(values) # Len(s_grid) THEN Raised("ValueError")
         ELSE IF Len(s_grid) = 1 THEN values[1]
         ELSE IF IsNaN(spot) THEN spot
         ELSE The({InterpolateAt(s_grid, values, spot, j) :
                     j \in {InterpSearch(s_grid, spot, Len(s_grid))}}) :
            s_grid \in {s_grid0}, values \in {values0}, spot \in {spot0}})

\* The node index with np.searchsorted's side 'right'.
FdIndexRight(values, grid, spot) == Clip(CountLeq(grid, spot), 1, Len(values) - 2)

\* Lines 245-246: the node index the differences are centred on (0-based, as in the code).
FdIndex(values, grid, spot) == Clip(SearchSorted(grid, spot), 1, Len(values) - 2)

\* Lines 248-258 at node idx (0-based) with grid step d_s.
FdAt(values, idx, d_s, order) ==
    IF order = 1
    THEN Some(FDiv(FSub(values[idx + 2], values[idx]), FMul(Int2Num(2), d_s)))
    ELSE IF order = 2
    THEN Some(FDiv(FAdd(FSub(values[idx + 2], FMul(Int2Num(2), values[idx + 1])), values[idx]),
                   FMul(d_s, d_s)))
    ELSE Raised("ValueError")

\* Lines 236-258.  A grid of fewer than two nodes has no grid[1] (line 252).
finite_difference(values0, grid0, spot, order) ==
    The({IF Len(values) < 3 THEN None
         ELSE IF Len(grid) < 2 THEN Raised("IndexError")
         ELSE The({FdAt(values, idx, d_s, order) :
                     idx \in {FdIndex(values, grid, spot)}, d_s \in {FSub(grid[2], grid[1])}}) :
            values \in {values0}, grid \in {grid0}})

\* The floor 1e-4 on a bumped volatility (line 275), and the rate bump 1e-4 (line 331).
MinSigma == Frac(1, 10000)

BumpSizeRate == Frac(1, 10000)

\* Python's "x or 0.0" for an optional float: absent and zero (of either sign)
\* both give 0.0.
OrZero(x) == IF x.some /\ ~IsZero(x.val) THEN x.val ELSE Zero

\* Lines 278-288 at the bumped sigma and rate: the outcomes, each the reprice
\* interpolated at the spot or the exception the solve raised.
BumpedPrice(option_type, spot, strike, expiry, rate, dividend_yield, sigma, config) ==
    {IF IsRaised(ret) THEN ret ELSE interpolate_value(ret.s_grid, ret.solution, spot) :
        ret \in crank_nicolson_price(option_type, spot, strike, expiry, rate, dividend_yield,
                                     sigma, config)}

\* Lines 261-288: the outcomes.
bump_and_price(option_type, spot, strike, expiry, risk_free_rate, dividend_yield, volatility, config, bump_sigma, bump_rate) ==
    BumpedPrice(option_type, spot, strike, expiry,
                FAdd(risk_free_rate, OrZero(bump_rate)), dividend_yield,
                FMax(FAdd(volatility, OrZero(bump_sigma)), MinSigma), config)

(***************************************************************************)
(* PDERequest (main.py 21-40).  The body of a request is a record of the   *)
(* fields as sent, already of the field's type; a field with a default may *)
(* be left out (None).  Construction checks every field and raises one     *)
(* ValidationError naming the fields that failed.  An int is below 2^31.   *)
(*                                                                         *)
(* A str is the sequence of its characters, a character its Unicode code   *)
(* point: "call" is <<99, 97, 108, 108>>.  The case tables are those of    *)
(* Unicode 14.0, which CPython 3.11 carries.                               *)
(***************************************************************************)
\* str.upper(), one character to one: <<lo, hi, step, delta>> moves every
\* step-th character from lo to hi by delta.
UpperRanges ==
    { <<97, 122, 1, -32>>, <<181, 181, 1, 743>>, <<224, 246, 1, -32>>, <<248, 254, 1, -32>>,
      <<255, 255, 1, 121>>, <<257, 303, 2, -1>>, <<305, 305, 1, -232>>, <<307, 311, 2, -1>>,
      <<314, 328, 2, -1>>, <<331, 375, 2, -1>>, <<378, 382, 2, -1>>, <<383, 383, 1, -300>>,
      <<384, 384, 1, 195>>, <<387, 389, 2, -1>>, <<392, 392, 1, -1>>, <<396, 396, 1, -1>>,
      <<402, 402, 1, -1>>, <<405, 405, 1, 97>>, <<409, 409, 1, -1>>, <<410, 410, 1, 163>>,
      <<414, 414, 1, 130>>, <<417, 421, 2, -1>>, <<424, 424, 1, -1>>, <<429, 429, 1, -1>>,
      <<432, 432, 1, -1>>, <<436, 438, 2, -1>>, <<441, 441, 1, -1>>, <<445, 445, 1, -1>>,
      <<447, 447, 1, 56>>, <<453, 453, 1, -1>>, <<454, 454, 1, -2>>, <<456, 456, 1, -1>>,
      <<457, 457, 1, -2>>, <<459, 459, 1, -1>>, <<460, 460, 1, -2>>, <<462, 476, 2, -1>>,
      <<477, 477, 1, -79>>, <<479, 495, 2, -1>>, <<498, 498, 1, -1>>, <<499, 499, 1, -2>>,
      <<501, 501, 1, -1>>, <<505, 543, 2, -1>>, <<547, 563, 2, -1>>, <<572, 572, 1, -1>>,
      <<575, 576, 1, 10815>>, <<578, 578, 1, -1>>, <<583, 591, 2, -1>>, <<592, 592, 1, 10783>>,
      <<593, 593, 1, 10780>>, <<594, 594, 1, 10782>>, <<595, 595, 1, -210>>, <<596, 596, 1, -206>>,
      <<598, 599, 1, -205>>, <<601, 601, 1, -202>>, <<603, 603, 1, -203>>, <<604, 604, 1, 42319>>,
      <<608, 608, 1, -205>>, <<609, 609, 1, 42315>>, <<611, 611, 1, -207>>, <<613, 613, 1, 42280>>,
      <<614, 614, 1, 42308>>, <<616, 616, 1, -209>>, <<617, 617, 1, -211>>, <<618, 618, 1, 42308>>,
      <<619, 619, 1, 10743>>, <<620, 620, 1, 42305>>, <<623, 623, 1, -211>>, <<625, 625, 1, 10749>>,
      <<626, 626, 1, -213>>, <<629, 629, 1, -214>>, <<637, 637, 1, 10727>>, <<640, 640, 1, -218>>,
      <<642, 642, 1, 42307>>, <<643, 643, 1, -218>>, <<647, 647, 1, 42282>>, <<648, 648, 1, -218>>,
      <<649, 649, 1, -69>>, <<650, 651, 1, -217>>, <<652, 652, 1, -71>>, <<658, 658, 1, -219>>,
      <<669, 669, 1, 42261>>, <<670, 670, 1, 42258>>, <<837, 837, 1, 84>>, <<881, 883, 2, -1>>,
      <<887, 887, 1, -1>>, <<891, 893, 1, 130>>, <<940, 940, 1, -38>>, <<941, 943, 1, -37>>,
      <<945, 961, 1, -32>>, <<962, 962, 1, -31>>, <<963, 971, 1, -32>>, <<972, 972, 1, -64>>,
      <<973, 974, 1, -63>>, <<976, 976, 1, -62>>, <<977, 977, 1, -57>>, <<981, 981, 1, -47>>,
      <<982, 982, 1, -54>>, <<983, 983, 1, -8>>, <<985, 1007, 2, -1>>, <<1008, 1008, 1, -86>>,
      <<1009, 1009, 1, -80>>, <<1010, 1010, 1, 7>>, <<1011, 1011, 1, -116>>, <<1013, 1013, 1, -96>>,
      <<1016, 1016, 1, -1>>, <<1019, 1019, 1, -1>>, <<1072, 1103, 1, -32>>, <<1104, 1119, 1, -80>>,
      <<1121, 1153, 2, -1>>, <<1163, 1215, 2, -1>>, <<1218, 1230, 2, -1>>, <<1231, 1231, 1, -15>>,
      <<1233, 1327, 2, -1>>, <<1377, 1414, 1, -48>>, <<4304, 4346, 1, 3008>>, <<4349, 4351, 1, 3008>>,
      <<5112, 5117, 1, -8>>, <<7296, 7296, 1, -6254>>, <<7297, 7297, 1, -6253>>, <<7298, 7298, 1, -6244>>,
      <<7299, 7300, 1, -6242>>, <<7301, 7301, 1, -6243>>, <<7302, 7302, 1, -6236>>, <<7303, 7303, 1, -6181>>,
      <<7304, 7304, 1, 35266>>, <<7545, 7545, 1, 35332>>, <<7549, 7549, 1, 3814>>, <<7566, 7566, 1, 35384>>,
      <<7681, 7829, 2, -1>>, <<7835, 7835, 1, -59>>, <<7841, 7935, 2, -1>>, <<7936, 7943, 1, 8>>,
      <<7952, 7957, 1, 8>>, <<7968, 7975, 1, 8>>, <<7984, 7991, 1, 8>>, <<8000, 8005, 1, 8>>,
      <<8017, 8023, 2, 8>>, <<8032, 8039, 1, 8>>, <<8048, 8049, 1, 74>>, <<8050, 8053, 1, 86>>,
      <<8054, 8055, 1, 100>>, <<8056, 8057, 1, 128>>, <<8058, 8059, 1, 112>>, <<8060, 8061, 1, 126>>,
      <<8112, 8113, 1, 8>>, <<8126, 8126, 1, -7205>>, <<8144, 8145, 1, 8>>, <<8160, 8161, 1, 8>>,
      <<8165, 8165, 1, 7>>, <<8526, 8526, 1, -28>>, <<8560, 8575, 1, -16>>, <<8580, 8580, 1, -1>>,
      <<9424, 9449, 1, -26>>, <<11312, 11359, 1, -48>>, <<11361, 11361, 1, -1>>, <<11365, 11365, 1, -10795>>,
      <<11366, 11366, 1, -10792>>, <<11368, 11372, 2, -1>>, <<11379, 11379, 1, -1>>, <<11382, 11382, 1, -1>>,
      <<11393, 11491, 2, -1>>, <<11500, 11502, 2, -1>>, <<11507, 11507, 1, -1>>, <<11520, 11557, 1, -7264>>,
      <<11559, 11559, 1, -7264>>, <<11565, 11565, 1, -7264>>, <<42561, 42605, 2, -1>>, <<42625, 42651, 2, -1>>,
      <<42787, 42799, 2, -1>>, <<42803, 42863, 2, -1>>, <<42874, 42876, 2, -1>>, <<42879, 42887, 2, -1>>,
      <<42892, 42892, 1, -1>>, <<42897, 42899, 2, -1>>, <<42900, 42900, 1, 48>>, <<42903, 42921, 2, -1>>,
      <<42933, 42947, 2, -1>>, <<42952, 42954, 2, -1>>, <<42961, 42961, 1, -1>>, <<42967, 42969, 2, -1>>,
      <<42998, 42998, 1, -1>>, <<43859, 43859, 1, -928>>, <<43888, 43967, 1, -38864>>, <<65345, 65370, 1, -32>>,
      <<66600, 66639, 1, -40>>, <<66776, 66811, 1, -40>>, <<66967, 67003, 2, -39>>, <<66968, 66976, 2, -39>>,
      <<66980, 66992, 2, -39>>, <<66996, 67000, 2, -39>>, <<67004, 67004, 1, -39>>, <<68800, 68850, 1, -64>>,
      <<71872, 71903, 1, -32>>, <<93792, 93823, 1, -32>>, <<125218, 125251, 1, -34>> }

\* str.upper(), one character to several.
UpperSpecial ==
    { <<223, <<83, 83>>>>, <<329, <<700, 78>>>>, <<496, <<74, 780>>>>, <<912, <<921, 776, 769>>>>,
      <<944, <<933, 776, 769>>>>, <<1415, <<1333, 1362>>>>, <<7830, <<72, 817>>>>, <<7831, <<84, 776>>>>,
      <<7832, <<87, 778>>>>, <<7833, <<89, 778>>>>, <<7834, <<65, 702>>>>, <<8016, <<933, 787>>>>,
      <<8018, <<933, 787, 768>>>>, <<8020, <<933, 787, 769>>>>, <<8022, <<933, 787, 834>>>>, <<8064, <<7944, 921>>>>,
      <<8065, <<7945, 921>>>>, <<8066, <<7946, 921>>>>, <<8067, <<7947, 921>>>>, <<8068, <<7948, 921>>>>,
      <<8069, <<7949, 921>>>>, <<8070, <<7950, 921>>>>, <<8071, <<7951, 921>>>>, <<8072, <<7944, 921>>>>,
      <<8073, <<7945, 921>>>>, <<8074, <<7946, 921>>>>, <<8075, <<7947, 921>>>>, <<8076, <<7948, 921>>>>,
      <<8077, <<7949, 921>>>>, <<8078, <<7950, 921>>>>, <<8079, <<7951, 921>>>>, <<8080, <<7976, 921>>>>,
      <<8081, <<7977, 921>>>>, <<8082, <<7978, 921>>>>, <<8083, <<7979, 921>>>>, <<8084, <<7980, 921>>>>,
      <<8085, <<7981, 921>>>>, <<8086, <<7982, 921>>>>, <<8087, <<7983, 921>>>>, <<8088, <<7976, 921>>>>,
      <<8089, <<7977, 921>>>>, <<8090, <<7978, 921>>>>, <<8091, <<7979, 921>>>>, <<8092, <<7980, 921>>>>,
      <<8093, <<7981, 921>>>>, <<8094, <<7982, 921>>>>, <<8095, <<7983, 921>>>>, <<8096, <<8040, 921>>>>,
      <<8097, <<8041, 921>>>>, <<8098, <<8042, 921>>>>, <<8099, <<8043, 921>>>>, <<8100, <<8044, 921>>>>,
      <<8101, <<8045, 921>>>>, <<8102, <<8046, 921>>>>, <<8103, <<8047, 921>>>>, <<8104, <<8040, 921>>>>,
      <<8105, <<8041, 921>>>>, <<8106, <<8042, 921>>>>, <<8107, <<8043, 921>>>>, <<8108, <<8044, 921>>>>,
      <<8109, <<8045, 921>>>>, <<8110, <<8046, 921>>>>, <<8111, <<8047, 921>>>>, <<8114, <<8122, 921>>>>,
      <<8115, <<913, 921>>>>, <<8116, <<902, 921>>>>, <<8118, <<913, 834>>>>, <<8119, <<913, 834, 921>>>>,
      <<8124, <<913, 921>>>>, <<8130, <<8138, 921>>>>, <<8131, <<919, 921>>>>, <<8132, <<905, 921>>>>,
      <<8134, <<919, 834>>>>, <<8135, <<919, 834, 921>>>>, <<8140, <<919, 921>>>>, <<8146, <<921, 776, 768>>>>,
      <<8147, <<921, 776, 769>>>>, <<8150, <<921, 834>>>>, <<8151, <<921, 776, 834>>>>, <<8162, <<933, 776, 768>>>>,
      <<8163, <<933, 776, 769>>>>, <<8164, <<929, 787>>>>, <<8166, <<933, 834>>>>, <<8167, <<933, 776, 834>>>>,
      <<8178, <<8186, 921>>>>, <<8179, <<937, 921>>>>, <<8180, <<911, 921>>>>, <<8182, <<937, 834>>>>,
      <<8183, <<937, 834, 921>>>>, <<8188, <<937, 921>>>>, <<64256, <<70, 70>>>>, <<64257, <<70, 73>>>>,
      <<64258, <<70, 76>>>>, <<64259, <<70, 70, 73>>>>, <<64260, <<70, 70, 76>>>>, <<64261, <<83, 84>>>>,
      <<64262, <<83, 84>>>>, <<64275, <<1348, 1350>>>>, <<64276, <<1348, 1333>>>>, <<64277, <<1348, 1339>>>>,
      <<64278, <<1358, 1350>>>>, <<64279, <<1348, 1341>>>> }

\* str.lower(), likewise.
LowerRanges ==
    { <<65, 90, 1, 32>>, <<192, 214, 1, 32>>, <<216, 222, 1, 32>>, <<256, 302, 2, 1>>,
      <<306, 310, 2, 1>>, <<313, 327, 2, 1>>, <<330, 374, 2, 1>>, <<376, 376, 1, -121>>,
      <<377, 381, 2, 1>>, <<385, 385, 1, 210>>, <<386, 388, 2, 1>>, <<390, 390, 1, 206>>,
      <<391, 391, 1, 1>>, <<393, 394, 1, 205>>, <<395, 395, 1, 1>>, <<398, 398, 1, 79>>,
      <<399, 399, 1, 202>>, <<400, 400, 1, 203>>, <<401, 401, 1, 1>>, <<403, 403, 1, 205>>,
      <<404, 404, 1, 207>>, <<406, 406, 1, 211>>, <<407, 407, 1, 209>>, <<408, 408, 1, 1>>,
      <<412, 412, 1, 211>>, <<413, 413, 1, 213>>, <<415, 415, 1, 214>>, <<416, 420, 2, 1>>,
      <<422, 422, 1, 218>>, <<423, 423, 1, 1>>, <<425, 425, 1, 218>>, <<428, 428, 1, 1>>,
      <<430, 430, 1, 218>>, <<431, 431, 1, 1>>, <<433, 434, 1, 217>>, <<435, 437, 2, 1>>,
      <<439, 439, 1, 219>>, <<440, 440, 1, 1>>, <<444, 444, 1, 1>>, <<452, 452, 1, 2>>,
      <<453, 453, 1, 1>>, <<455, 455, 1, 2>>, <<456, 456, 1, 1>>, <<458, 458, 1, 2>>,
      <<459, 475, 2, 1>>, <<478, 494, 2, 1>>, <<497, 497, 1, 2>>, <<498, 500, 2, 1>>,
      <<502, 502, 1, -97>>, <<503, 503, 1, -56>>, <<504, 542, 2, 1>>, <<544, 544, 1, -130>>,
      <<546, 562, 2, 1>>, <<570, 570, 1, 10795>>, <<571, 571, 1, 1>>, <<573, 573, 1, -163>>,
      <<574, 574, 1, 10792>>, <<577, 577, 1, 1>>, <<579, 579, 1, -195>>, <<580, 580, 1, 69>>,
      <<581, 581, 1, 71>>, <<582, 590, 2, 1>>, <<880, 882, 2, 1>>, <<886, 886, 1, 1>>,
      <<895, 895, 1, 116>>, <<902, 902, 1, 38>>, <<904, 906, 1, 37>>, <<908, 908, 1, 64>>,
      <<910, 911, 1, 63>>, <<913, 929, 1, 32>>, <<932, 939, 1, 32>>, <<975, 975, 1, 8>>,
      <<984, 1006, 2, 1>>, <<1012, 1012, 1, -60>>, <<1015, 1015, 1, 1>>, <<1017, 1017, 1, -7>>,
      <<1018, 1018, 1, 1>>, <<1021, 1023, 1, -130>>, <<1024, 1039, 1, 80>>, <<1040, 1071, 1, 32>>,
      <<1120, 1152, 2, 1>>, <<1162, 1214, 2, 1>>, <<1216, 1216, 1, 15>>, <<1217, 1229, 2, 1>>,
      <<1232, 1326, 2, 1>>, <<1329, 1366, 1, 48>>, <<4256, 4293, 1, 7264>>, <<4295, 4295, 1, 7264>>,
      <<4301, 4301, 1, 7264>>, <<5024, 5103, 1, 38864>>, <<5104, 5109, 1, 8>>, <<7312, 7354, 1, -3008>>,
      <<7357, 7359, 1, -3008>>, <<7680, 7828, 2, 1>>, <<7838, 7838, 1, -7615>>, <<7840, 7934, 2, 1>>,
      <<7944, 7951, 1, -8>>, <<7960, 7965, 1, -8>>, <<7976, 7983, 1, -8>>, <<7992, 7999, 1, -8>>,
      <<8008, 8013, 1, -8>>, <<8025, 8031, 2, -8>>, <<8040, 8047, 1, -8>>, <<8072, 8079, 1, -8>>,
      <<8088, 8095, 1, -8>>, <<8104, 8111, 1, -8>>, <<8120, 8121, 1, -8>>, <<8122, 8123, 1, -74>>,
      <<8124, 8124, 1, -9>>, <<8136, 8139, 1, -86>>, <<8140, 8140, 1, -9>>, <<8152, 8153, 1, -8>>,
      <<8154, 8155, 1, -100>>, <<8168, 8169, 1, -8>>, <<8170, 8171, 1, -112>>, <<8172, 8172, 1, -7>>,
      <<8184, 8185, 1, -128>>, <<8186, 8187, 1, -126>>, <<8188, 8188, 1, -9>>, <<8486, 8486, 1, -7517>>,
      <<8490, 8490, 1, -8383>>, <<8491, 8491, 1, -8262>>, <<8498, 8498, 1, 28>>, <<8544, 8559, 1, 16>>,
      <<8579, 8579, 1, 1>>, <<9398, 9423, 1, 26>>, <<11264, 11311, 1, 48>>, <<11360, 11360, 1, 1>>,
      <<11362, 11362, 1, -10743>>, <<11363, 11363, 1, -3814>>, <<11364, 11364, 1, -10727>>, <<11367, 11371, 2, 1>>,
      <<11373, 11373, 1, -10780>>, <<11374, 11374, 1, -10749>>, <<11375, 11375, 1, -10783>>, <<11376, 11376, 1, -10782>>,
      <<11378, 11378, 1, 1>>, <<11381, 11381, 1, 1>>, <<11390, 11391, 1, -10815>>, <<11392, 11490, 2, 1>>,
      <<11499, 11501, 2, 1>>, <<11506, 11506, 1, 1>>, <<42560, 42604, 2, 1>>, <<42624, 42650, 2, 1>>,
      <<42786, 42798, 2, 1>>, <<42802, 42862, 2, 1>>, <<42873, 42875, 2, 1>>, <<42877, 42877, 1, -35332>>,
      <<42878, 42886, 2, 1>>, <<42891, 42891, 1, 1>>, <<42893, 42893, 1, -42280>>, <<42896, 42898, 2, 1>>,
      <<42902, 42920, 2, 1>>, <<42922, 42922, 1, -42308>>, <<42923, 42923, 1, -42319>>, <<42924, 42924, 1, -42315>>,
      <<42925, 42925, 1, -42305>>, <<42926, 42926, 1, -42308>>, <<42928, 42928, 1, -42258>>, <<42929, 42929, 1, -42282>>,
      <<42930, 42930, 1, -42261>>, <<42931, 42931, 1, 928>>, <<42932, 42946, 2, 1>>, <<42948, 42948, 1, -48>>,
      <<42949, 42949, 1, -42307>>, <<42950, 42950, 1, -35384>>, <<42951, 42953, 2, 1>>, <<42960, 42960, 1, 1>>,
      <<42966, 42968, 2, 1>>, <<42997, 42997, 1, 1>>, <<65313, 65338, 1, 32>>, <<66560, 66599, 1, 40>>,
      <<66736, 66771, 1, 40>>, <<66928, 66964, 2, 39>>, <<66929, 66937, 2, 39>>, <<66941, 66953, 2, 39>>,
      <<66957, 66961, 2, 39>>, <<66965, 66965, 1, 39>>, <<68736, 68786, 1, 64>>, <<71840, 71871, 1, 32>>,
      <<93760, 93791, 1, 32>>, <<125184, 125217, 1, 34>> }

LowerSpecial ==
    { <<304, <<105, 775>>>> }

\* The characters <<lo, hi>> that are cased and not case-ignorable, and those
\* that are case-ignorable: what str.lower() looks at around a capital sigma.
Cased ==
    { <<65, 90>>, <<97, 122>>, <<170, 170>>, <<181, 181>>, <<186, 186>>, <<192, 214>>,
      <<216, 246>>, <<248, 442>>, <<444, 447>>, <<452, 659>>, <<661, 687>>, <<880, 883>>,
      <<886, 887>>, <<891, 893>>, <<895, 895>>, <<902, 902>>, <<904, 906>>, <<908, 908>>,
      <<910, 929>>, <<931, 1013>>, <<1015, 1153>>, <<1162, 1327>>, <<1329, 1366>>, <<1376, 1416>>,
      <<4256, 4293>>, <<4295, 4295>>, <<4301, 4301>>, <<4304, 4346>>, <<4349, 4351>>, <<5024, 5109>>,
      <<5112, 5117>>, <<7296, 7304>>, <<7312, 7354>>, <<7357, 7359>>, <<7424, 7467>>, <<7531, 7543>>,
      <<7545, 7578>>, <<7680, 7957>>, <<7960, 7965>>, <<7968, 8005>>, <<8008, 8013>>, <<8016, 8023>>,
      <<8025, 8025>>, <<8027, 8027>>, <<8029, 8029>>, <<8031, 8061>>, <<8064, 8116>>, <<8118, 8124>>,
      <<8126, 8126>>, <<8130, 8132>>, <<8134, 8140>>, <<8144, 8147>>, <<8150, 8155>>, <<8160, 8172>>,
      <<8178, 8180>>, <<8182, 8188>>, <<8450, 8450>>, <<8455, 8455>>, <<8458, 8467>>, <<8469, 8469>>,
      <<8473, 8477>>, <<8484, 8484>>, <<8486, 8486>>, <<8488, 8488>>, <<8490, 8493>>, <<8495, 8500>>,
      <<8505, 8505>>, <<8508, 8511>>, <<8517, 8521>>, <<8526, 8526>>, <<8544, 8575>>, <<8579, 8580>>,
      <<9398, 9449>>, <<11264, 11387>>, <<11390, 11492>>, <<11499, 11502>>, <<11506, 11507>>, <<11520, 11557>>,
      <<11559, 11559>>, <<11565, 11565>>, <<42560, 42605>>, <<42624, 42651>>, <<42786, 42863>>, <<42865, 42887>>,
      <<42891, 42894>>, <<42896, 42954>>, <<42960, 42961>>, <<42963, 42963>>, <<42965, 42969>>, <<42997, 42998>>,
      <<43002, 43002>>, <<43824, 43866>>, <<43872, 43880>>, <<43888, 43967>>, <<64256, 64262>>, <<64275, 64279>>,
      <<65313, 65338>>, <<65345, 65370>>, <<66560, 66639>>, <<66736, 66771>>, <<66776, 66811>>, <<66928, 66938>>,
      <<66940, 66954>>, <<66956, 66962>>, <<66964, 66965>>, <<66967, 66977>>, <<66979, 66993>>, <<66995, 67001>>,
      <<67003, 67004>>, <<68736, 68786>>, <<68800, 68850>>, <<71840, 71903>>, <<93760, 93823>>, <<119808, 119892>>,
      <<119894, 119964>>, <<119966, 119967>>, <<119970, 119970>>, <<119973, 119974>>, <<119977, 119980>>, <<119982, 119993>>,
      <<119995, 119995>>, <<119997, 120003>>, <<120005, 120069>>, <<120071, 120074>>, <<120077, 120084>>, <<120086, 120092>>,
      <<120094, 120121>>, <<120123, 120126>>, <<120128, 120132>>, <<120134, 120134>>, <<120138, 120144>>, <<120146, 120485>>,
      <<120488, 120512>>, <<120514, 120538>>, <<120540, 120570>>, <<120572, 120596>>, <<120598, 120628>>, <<120630, 120654>>,
      <<120656, 120686>>, <<120688, 120712>>, <<120714, 120744>>, <<120746, 120770>>, <<120772, 120779>>, <<122624, 122633>>,
      <<122635, 122654>>, <<125184, 125251>>, <<127280, 127305>>, <<127312, 127337>>, <<127344, 127369>> }

CaseIgnorable ==
    { <<39, 39>>, <<46, 46>>, <<58, 58>>, <<94, 94>>, <<96, 96>>, <<168, 168>>,
      <<173, 173>>, <<175, 175>>, <<180, 180>>, <<183, 184>>, <<688, 879>>, <<884, 885>>,
      <<890, 890>>, <<900, 901>>, <<903, 903>>, <<1155, 1161>>, <<1369, 1369>>, <<1375, 1375>>,
      <<1425, 1469>>, <<1471, 1471>>, <<1473, 1474>>, <<1476, 1477>>, <<1479, 1479>>, <<1524, 1524>>,
      <<1536, 1541>>, <<1552, 1562>>, <<1564, 1564>>, <<1600, 1600>>, <<1611, 1631>>, <<1648, 1648>>,
      <<1750, 1757>>, <<1759, 1768>>, <<1770, 1773>>, <<1807, 1807>>, <<1809, 1809>>, <<1840, 1866>>,
      <<1958, 1968>>, <<2027, 2037>>, <<2042, 2042>>, <<2045, 2045>>, <<2070, 2093>>, <<2137, 2139>>,
      <<2184, 2184>>, <<2192, 2193>>, <<2200, 2207>>, <<2249, 2306>>, <<2362, 2362>>, <<2364, 2364>>,
      <<2369, 2376>>, <<2381, 2381>>, <<2385, 2391>>, <<2402, 2403>>, <<2417, 2417>>, <<2433, 2433>>,
      <<2492, 2492>>, <<2497, 2500>>, <<2509, 2509>>, <<2530, 2531>>, <<2558, 2558>>, <<2561, 2562>>,
      <<2620, 2620>>, <<2625, 2626>>, <<2631, 2632>>, <<2635, 2637>>, <<2641, 2641>>, <<2672, 2673>>,
      <<2677, 2677>>, <<2689, 2690>>, <<2748, 2748>>, <<2753, 2757>>, <<2759, 2760>>, <<2765, 2765>>,
      <<2786, 2787>>, <<2810, 2815>>, <<2817, 2817>>, <<2876, 2876>>, <<2879, 2879>>, <<2881, 2884>>,
      <<2893, 2893>>, <<2901, 2902>>, <<2914, 2915>>, <<2946, 2946>>, <<3008, 3008>>, <<3021, 3021>>,
      <<3072, 3072>>, <<3076, 3076>>, <<3132, 3132>>, <<3134, 3136>>, <<3142, 3144>>, <<3146, 3149>>,
      <<3157, 3158>>, <<3170, 3171>>, <<3201, 3201>>, <<3260, 3260>>, <<3263, 3263>>, <<3270, 3270>>,
      <<3276, 3277>>, <<3298, 3299>>, <<3328, 3329>>, <<3387, 3388>>, <<3393, 3396>>, <<3405, 3405>>,
      <<3426, 3427>>, <<3457, 3457>>, <<3530, 3530>>, <<3538, 3540>>, <<3542, 3542>>, <<3633, 3633>>,
      <<3636, 3642>>, <<3654, 3662>>, <<3761, 3761>>, <<3764, 3772>>, <<3782, 3782>>, <<3784, 3789>>,
      <<3864, 3865>>, <<3893, 3893>>, <<3895, 3895>>, <<3897, 3897>>, <<3953, 3966>>, <<3968, 3972>>,
      <<3974, 3975>>, <<3981, 3991>>, <<3993, 4028>>, <<4038, 4038>>, <<4141, 4144>>, <<4146, 4151>>,
      <<4153, 4154>>, <<4157, 4158>>, <<4184, 4185>>, <<4190, 4192>>, <<4209, 4212>>, <<4226, 4226>>,
      <<4229, 4230>>, <<4237, 4237>>, <<4253, 4253>>, <<4348, 4348>>, <<4957, 4959>>, <<5906, 5908>>,
      <<5938, 5939>>, <<5970, 5971>>, <<6002, 6003>>, <<6068, 6069>>, <<6071, 6077>>, <<6086, 6086>>,
      <<6089, 6099>>, <<6103, 6103>>, <<6109, 6109>>, <<6155, 6159>>, <<6211, 6211>>, <<6277, 6278>>,
      <<6313, 6313>>, <<6432, 6434>>, <<6439, 6440>>, <<6450, 6450>>, <<6457, 6459>>, <<6679, 6680>>,
      <<6683, 6683>>, <<6742, 6742>>, <<6744, 6750>>, <<6752, 6752>>, <<6754, 6754>>, <<6757, 6764>>,
      <<6771, 6780>>, <<6783, 6783>>, <<6823, 6823>>, <<6832, 6862>>, <<6912, 6915>>, <<6964, 6964>>,
      <<6966, 6970>>, <<6972, 6972>>, <<6978, 6978>>, <<7019, 7027>>, <<7040, 7041>>, <<7074, 7077>>,
      <<7080, 7081>>, <<7083, 7085>>, <<7142, 7142>>, <<7144, 7145>>, <<7149, 7149>>, <<7151, 7153>>,
      <<7212, 7219>>, <<7222, 7223>>, <<7288, 7293>>, <<7376, 7378>>, <<7380, 7392>>, <<7394, 7400>>,
      <<7405, 7405>>, <<7412, 7412>>, <<7416, 7417>>, <<7468, 7530>>, <<7544, 7544>>, <<7579, 7679>>,
      <<8125, 8125>>, <<8127, 8129>>, <<8141, 8143>>, <<8157, 8159>>, <<8173, 8175>>, <<8189, 8190>>,
      <<8203, 8207>>, <<8216, 8217>>, <<8228, 8228>>, <<8231, 8231>>, <<8234, 8238>>, <<8288, 8292>>,
      <<8294, 8303>>, <<8305, 8305>>, <<8319, 8319>>, <<8336, 8348>>, <<8400, 8432>>, <<11388, 11389>>,
      <<11503, 11505>>, <<11631, 11631>>, <<11647, 11647>>, <<11744, 11775>>, <<11823, 11823>>, <<12293, 12293>>,
      <<12330, 12333>>, <<12337, 12341>>, <<12347, 12347>>, <<12441, 12446>>, <<12540, 12542>>, <<40981, 40981>>,
      <<42232, 42237>>, <<42508, 42508>>, <<42607, 42610>>, <<42612, 42621>>, <<42623, 42623>>, <<42652, 42655>>,
      <<42736, 42737>>, <<42752, 42785>>, <<42864, 42864>>, <<42888, 42890>>, <<42994, 42996>>, <<43000, 43001>>,
      <<43010, 43010>>, <<43014, 43014>>, <<43019, 43019>>, <<43045, 43046>>, <<43052, 43052>>, <<43204, 43205>>,
      <<43232, 43249>>, <<43263, 43263>>, <<43302, 43309>>, <<43335, 43345>>, <<43392, 43394>>, <<43443, 43443>>,
      <<43446, 43449>>, <<43452, 43453>>, <<43471, 43471>>, <<43493, 43494>>, <<43561, 43566>>, <<43569, 43570>>,
      <<43573, 43574>>, <<43587, 43587>>, <<43596, 43596>>, <<43632, 43632>>, <<43644, 43644>>, <<43696, 43696>>,
      <<43698, 43700>>, <<43703, 43704>>, <<43710, 43711>>, <<43713, 43713>>, <<43741, 43741>>, <<43756, 43757>>,
      <<43763, 43764>>, <<43766, 43766>>, <<43867, 43871>>, <<43881, 43883>>, <<44005, 44005>>, <<44008, 44008>>,
      <<44013, 44013>>, <<64286, 64286>>, <<64434, 64450>>, <<65024, 65039>>, <<65043, 65043>>, <<65056, 65071>>,
      <<65106, 65106>>, <<65109, 65109>>, <<65279, 65279>>, <<65287, 65287>>, <<65294, 65294>>, <<65306, 65306>>,
      <<65342, 65342>>, <<65344, 65344>>, <<65392, 65392>>, <<65438, 65439>>, <<65507, 65507>>, <<65529, 65531>>,
      <<66045, 66045>>, <<66272, 66272>>, <<66422, 66426>>, <<67456, 67461>>, <<67463, 67504>>, <<67506, 67514>>,
      <<68097, 68099>>, <<68101, 68102>>, <<68108, 68111>>, <<68152, 68154>>, <<68159, 68159>>, <<68325, 68326>>,
      <<68900, 68903>>, <<69291, 69292>>, <<69446, 69456>>, <<69506, 69509>>, <<69633, 69633>>, <<69688, 69702>>,
      <<69744, 69744>>, <<69747, 69748>>, <<69759, 69761>>, <<69811, 69814>>, <<69817, 69818>>, <<69821, 69821>>,
      <<69826, 69826>>, <<69837, 69837>>, <<69888, 69890>>, <<69927, 69931>>, <<69933, 69940>>, <<70003, 70003>>,
      <<70016, 70017>>, <<70070, 70078>>, <<70089, 70092>>, <<70095, 70095>>, <<70191, 70193>>, <<70196, 70196>>,
      <<70198, 70199>>, <<70206, 70206>>, <<70367, 70367>>, <<70371, 70378>>, <<70400, 70401>>, <<70459, 70460>>,
      <<70464, 70464>>, <<70502, 70508>>, <<70512, 70516>>, <<70712, 70719>>, <<70722, 70724>>, <<70726, 70726>>,
      <<70750, 70750>>, <<70835, 70840>>, <<70842, 70842>>, <<70847, 70848>>, <<70850, 70851>>, <<71090, 71093>>,
      <<71100, 71101>>, <<71103, 71104>>, <<71132, 71133>>, <<71219, 71226>>, <<71229, 71229>>, <<71231, 71232>>,
      <<71339, 71339>>, <<71341, 71341>>, <<71344, 71349>>, <<71351, 71351>>, <<71453, 71455>>, <<71458, 71461>>,
      <<71463, 71467>>, <<71727, 71735>>, <<71737, 71738>>, <<71995, 71996>>, <<71998, 71998>>, <<72003, 72003>>,
      <<72148, 72151>>, <<72154, 72155>>, <<72160, 72160>>, <<72193, 72202>>, <<72243, 72248>>, <<72251, 72254>>,
      <<72263, 72263>>, <<72273, 72278>>, <<72281, 72283>>, <<72330, 72342>>, <<72344, 72345>>, <<72752, 72758>>,
      <<72760, 72765>>, <<72767, 72767>>, <<72850, 72871>>, <<72874, 72880>>, <<72882, 72883>>, <<72885, 72886>>,
      <<73009, 73014>>, <<73018, 73018>>, <<73020, 73021>>, <<73023, 73029>>, <<73031, 73031>>, <<73104, 73105>>,
      <<73109, 73109>>, <<73111, 73111>>, <<73459, 73460>>, <<78896, 78904>>, <<92912, 92916>>, <<92976, 92982>>,
      <<92992, 92995>>, <<94031, 94031>>, <<94095, 94111>>, <<94176, 94177>>, <<94179, 94180>>, <<110576, 110579>>,
      <<110581, 110587>>, <<110589, 110590>>, <<113821, 113822>>, <<113824, 113827>>, <<118528, 118573>>, <<118576, 118598>>,
      <<119143, 119145>>, <<119155, 119170>>, <<119173, 119179>>, <<119210, 119213>>, <<119362, 119364>>, <<121344, 121398>>,
      <<121403, 121452>>, <<121461, 121461>>, <<121476, 121476>>, <<121499, 121503>>, <<121505, 121519>>, <<122880, 122886>>,
      <<122888, 122904>>, <<122907, 122913>>, <<122915, 122916>>, <<122918, 122922>>, <<123184, 123197>>, <<123566, 123566>>,
      <<123628, 123631>>, <<125136, 125142>>, <<125252, 125259>>, <<127995, 127999>>, <<917505, 917505>>, <<917536, 917631>>,
      <<917760, 917999>> }

Within(ranges, c) == \E r \in ranges : r[1] <= c /\ c <= r[2]

Moves(r, c) == r[1] <= c /\ c <= r[2] /\ (c - r[1]) % r[3] = 0

\* What a character becomes: the several characters special gives it, or the
\* one ranges moves it to, or itself.
Translate(special, ranges, c) ==
    IF \E x \in special : x[1] = c THEN (CHOOSE x \in special : x[1] = c)[2]
    ELSE IF \E r \in ranges : Moves(r, c) THEN <<c + (CHOOSE r \in ranges : Moves(r, c))[4]>>
    ELSE <<c>>

\* The strs parts[1], parts[2], ... one after the other.
RECURSIVE Join(_)
Join(parts) == IF Len(parts) = 0 THEN <<>> ELSE Head(parts) \o Join(Tail(parts))

\* str.upper().
Upper(s) == Join([i \in 1..Len(s) |-> Translate(UpperSpecial, UpperRanges, s[i])])

\* The nearest place at or before j, and at or after j, whose character is not
\* case-ignorable: 0 and Len(s) + 1 when there is none.
RECURSIVE SkipBack(_, _)
SkipBack(s, j) == IF j >= 1 /\ Within(CaseIgnorable, s[j]) THEN SkipBack(s, j - 1) ELSE j

RECURSIVE SkipForward(_, _)
SkipForward(s, j) ==
    IF j <= Len(s) /\ Within(CaseIgnorable, s[j]) THEN SkipForward(s, j + 1) ELSE j

\* The capital sigma at place i ends a word: a cased character comes before it
\* and none after it.
FinalSigma(s, i) ==
    /\ SkipBack(s, i - 1) >= 1 /\ Within(Cased, s[SkipBack(s, i - 1)])
    /\ SkipForward(s, i + 1) > Len(s) \/ ~Within(Cased, s[SkipForward(s, i + 1)])

\* str.lower(): a capital sigma (931) is the final small sigma (962) at the end
\* of a word and the small sigma (963) elsewhere.
Lower(s) ==
    Join([i \in 1..Len(s) |->
            IF s[i] = 931 THEN <<IF FinalSigma(s, i) THEN 962 ELSE 963>>
            ELSE Translate(LowerSpecial, LowerRanges, s[i])])

\* Line 11: the values of the Literal.
OptionType == {Call, Put}

\* The limits of lines 31-33.
MinGridSize == 50

MaxGridSize == 2000

MinTimeSteps == 50

MaxTimeSteps == 4000

MultiplierFloor == Int2Num(2)

MultiplierCap == Int2Num(20)

\* Lines 35-40: the validator, run on a value the Literal has let through; what
\* it returns is the field's value.
validate_option_type(value) ==
    IF Lower(value) \notin {Call, Put} THEN Raised("ValueError") ELSE [value |-> Lower(value)]

\* An optional int within [lo, hi], or absent.
IntWithin(x, lo, hi) == ~x.some \/ (lo <= x.val /\ x.val <= hi)

\* Lines 22-40: the fields of body that fail their constraints.
FieldErrors(body) ==
    {f \in {"symbol"} : Len(body.symbol) < 1}
    \cup {f \in {"option_type"} :
            body.option_type \notin OptionType \/ IsRaised(validate_option_type(body.option_type))}
    \cup {f \in {"spot"} : ~FLess(Zero, body.spot)}
    \cup {f \in {"strike"} : ~FLess(Zero, body.strike)}
    \cup {f \in {"expiry"} : ~FLess(Zero, body.expiry)}
    \cup {f \in {"volatility"} : ~FLess(Zero, body.volatility)}
    \cup {f \in {"quantity"} : body.quantity.some /\ ~(body.quantity.val > 0)}
    \cup {f \in {"grid_size"} : ~IntWithin(body.grid_size, MinGridSize, MaxGridSize)}
    \cup {f \in {"time_steps"} : ~IntWithin(body.time_steps, MinTimeSteps, MaxTimeSteps)}
    \cup {f \in {"s_max_multiplier"} :
            body.s_max_multiplier.some
            /\ ~(FLess(MultiplierFloor, body.s_max_multiplier.val)
                 /\ FLeq(body.s_max_multiplier.val, MultiplierCap))}

\* Lines 21-40: the request built from body, or the ValidationError.
PDERequest(body) ==
    IF FieldErrors(body) # {}
    THEN [raised |-> "ValidationError", fields |-> FieldErrors(body)]
    ELSE [symbol |-> body.symbol,
          option_type |-> validate_option_type(body.option_type).value,
          spot |-> body.spot, strike |-> body.strike, expiry |-> body.expiry,
          volatility |-> body.volatility, risk_free_rate |-> body.risk_free_rate,
          dividend_yield |-> IF body.dividend_yield.some THEN body.dividend_yield.val ELSE Zero,
          quantity |-> IF body.quantity.some THEN body.quantity.val ELSE 1,
          grid_size |-> body.grid_size, time_steps |-> body.time_steps,
          s_max_multiplier |-> body.s_max_multiplier]

(***************************************************************************)
(* format(x, ".2e") for a double x (line 403): three significant digits of *)
(* the exact value of x, rounded half to even, and a signed exponent of    *)
(* two digits or more; inf, -inf and nan for what is not finite.  The      *)
(* arithmetic is exact, on natural numbers of as many limbs as it takes.   *)
(***************************************************************************)
\* p * k for k below 2^17, in one limb more than p.
BigTimes(p0, k) == The({Carry([j \in 1..(Len(p) + 1) |-> Limb(p, j) * k]) : p \in {p0}})

\* p * m for a significand m, in four limbs more than p.
BigTimesSignificand(p0, m) ==
    The({Carry([j \in 1..(Len(p) + 4) |->
                  m[1] * Limb(p, j) + m[2] * Limb(p, j - 1)
                  + m[3] * Limb(p, j - 2) + m[4] * Limb(p, j - 3)]) :
            p \in {p0}})

\* p * 2^k.
BigShift(p0, k) == The({ShiftLeft(p, k, Len(p) + (k \div 14) + 1) : p \in {p0}})

\* a < b from limb j down, the limbs above being equal.
RECURSIVE BigLessFrom(_, _, _)
BigLessFrom(a, b, j) ==
    IF j = 0 THEN FALSE
    ELSE IF Limb(a, j) # Limb(b, j) THEN Limb(a, j) < Limb(b, j)
    ELSE BigLessFrom(a, b, j - 1)

\* a < b, whatever their numbers of limbs.
BigLess(a0, b0) ==
    The({BigLessFrom(a, b, IF Len(a) > Len(b) THEN Len(a) ELSE Len(b)) : a \in {a0}, b \in {b0}})

\* p * 10^n, taken as two halves.
RECURSIVE TimesTenTo(_, _)
TimesTenTo(p0, n) ==
    IF n <= 0 THEN p0
    ELSE IF n <= 4 THEN BigTimes(p0, 10 ^ n)
    ELSE The({TimesTenTo(p, n - (n \div 2)) : p \in {TimesTenTo(p0, n \div 2)}})

\* 10^n; 1 for a negative n.
TenTo(n) == TimesTenTo(<<1>>, n)

\* |x| * 10^p as the fraction num / den, for a finite x.
Scaled(x, p) ==
    [num |-> BigShift(BigTimesSignificand(TenTo(p), x.m), IF x.e > 0 THEN x.e ELSE 0),
     den |-> BigShift(TenTo(-p), IF x.e < 0 THEN -x.e ELSE 0)]

\* floor(num / den), known to be at least lo and below hi.
RECURSIVE FloorBetween(_, _, _)
FloorBetween(s, lo, hi) ==
    IF hi - lo <= 1 THEN lo
    ELSE The({IF BigLess(s.num, BigTimes(s.den, mid)) THEN FloorBetween(s, lo, mid)
              ELSE FloorBetween(s, mid, hi) :
                mid \in {(lo + hi) \div 2}})

\* floor(num / den) when it is below 1000, else 1000.
FloorBelow1000(s0) ==
    The({IF BigLess(s.num, BigTimes(s.den, 1000)) THEN FloorBetween(s, 0, 1000) ELSE 1000 :
            s \in {s0}})

\* num / den is nearer n + 1 than n, or as near and n is odd: 2 * num against
\* (2 * n + 1) * den.
RoundsUpFrom(s0, n) ==
    The({The({BigLess(odd, twice) \/ (n % 2 = 1 /\ ~BigLess(twice, odd)) :
                twice \in {BigTimes(s.num, 2)}, odd \in {BigTimes(s.den, 2 * n + 1)}}) :
            s \in {s0}})

\* floor(log10 |x|), or one or two off: |x| has BitLen(x.m) + x.e bits before
\* the point, and log10 2 is 0.30103.
DecimalEstimate(x) == ((BitLen(x.m) + x.e - 1) * 30103) \div 100000

\* The decimal exponent of a finite non-zero x: the E with
\* 100 <= |x| * 10^(2 - E) < 1000.
DecimalExponent(x0) ==
    The({CHOOSE E \in (est - 1)..(est + 2) :
            The({100 <= f /\ f <= 999 : f \in {FloorBelow1000(Scaled(x, 2 - E))}}) :
            x \in {x0}, est \in {DecimalEstimate(x0)}})

\* |x| * 10^(2 - E) rounded half to even, and E; 999.5 and above is 1.00 of the
\* next exponent.
ThreeDigits(x0) ==
    The({The({The({IF n = 1000 THEN [digits |-> 100, exponent |-> E + 1]
                   ELSE [digits |-> n, exponent |-> E] :
                     n \in {The({f + (IF RoundsUpFrom(s, f) THEN 1 ELSE 0) :
                                   f \in {FloorBelow1000(s)}})}}) :
                s \in {Scaled(x, 2 - E)}}) :
            x \in {x0}, E \in {DecimalExponent(x0)}})

\* The digits and the exponent as format writes them.
Mantissa(digits) ==
    ToString(digits \div 100) \o "." \o ToString((digits \div 10) % 10)
    \o ToString(digits % 10)

Exponent(E) ==
    "e" \o (IF E < 0 THEN "-" ELSE "+")
    \o The({(IF n < 10 THEN "0" ELSE "") \o ToString(n) : n \in {IF E < 0 THEN -E ELSE E}})

Format2e(x0) ==
    The({IF IsNaN(x) THEN "nan"
         ELSE (IF x.s = 1 THEN "-" ELSE "")
              \o (IF IsInf(x) THEN "inf"
                  ELSE IF IsZero(x) THEN Mantissa(0) \o Exponent(0)
                  ELSE The({Mantissa(d.digits) \o Exponent(d.exponent) :
                              d \in {ThreeDigits(x)}})) :
            x \in {x0}})

(***************************************************************************)
(* solve_black_scholes_pde (main.py 291-427).                              *)
(***************************************************************************)
DefaultGridSize == 400

DefaultTimeSteps == 800

DefaultMultiplier == Int2Num(6)

\* Python's "x or default" for an optional int and an optional float: absent
\* and zero both give the default.
OrInt(x, default) == IF x.some /\ x.val # 0 THEN x.val ELSE default

OrFloat(x, default) == IF x.some /\ ~IsZero(x.val) THEN x.val ELSE default

\* Lines 292-300.
ResolveConfig(request) ==
    [n_space |-> OrInt(request.grid_size, DefaultGridSize),
     n_time  |-> OrInt(request.time_steps, DefaultTimeSteps),
     s_max_multiplier |-> OrFloat(request.s_max_multiplier, DefaultMultiplier)]

\* Lines 319-322.
Price(request, ret) ==
    [fair_value |-> interpolate_value(ret.s_grid, ret.solution, request.spot),
     delta      |-> finite_difference(ret.solution, ret.s_grid, request.spot, 1),
     gamma      |-> finite_difference(ret.solution, ret.s_grid, request.spot, 2)]

\* The threshold 1e-6 of line 325.
MinExpiry == Frac(1, 1000000)

\* Lines 324-328.
Theta(request, config, ret, fair_value) ==
    IF FLess(MinExpiry, request.expiry)
    THEN Some(FDiv(FNeg(FSub(interpolate_value(ret.s_grid, ret.first_step, request.spot),
                             fair_value)),
                   FDiv(request.expiry, Int2Num(config.n_time))))
    ELSE None

\* Line 330.
BumpSizeSigma(request) == FMax(Frac(1, 10000), FMul(Frac(1, 100), request.volatility))

\* Lines 359 and 386: the central difference of two reprices.
Central(price_up, price_down, bump) ==
    Some(FDiv(FSub(price_up, price_down), FMul(Int2Num(2), bump)))

\* The threshold of line 401.
ResidualLimit == Frac(1, 1000)

\* Line 403.
HighResidual(residual_norm) ==
    "High residual norm detected (" \o Format2e(residual_norm)
    \o "); consider increasing grid resolution."

\* Line 407.
LargeSpread == "Boundary spread is large; increase s_max_multiplier or check inputs."

\* Lines 399-408.
Warnings(residual_norm, boundary_spread, fair_value) ==
    (IF FLess(ResidualLimit, residual_norm) THEN <<HighResidual(residual_norm)>> ELSE <<>>)
    \o (IF FLess(FMax(One, FMul(Frac(1, 20), fair_value)), boundary_spread)
        THEN <<LargeSpread>> ELSE <<>>)

\* Lines 390-427: diagnostics, warnings, price and the result.
Report(request, config, ret, o) ==
    [symbol      |-> Upper(request.symbol),
     option_type |-> request.option_type,
     fair_value  |-> o.fair_value,
     price       |-> IF request.quantity # 0
                     THEN FMul(o.fair_value, Int2Num(request.quantity)) ELSE o.fair_value,
     quantity    |-> request.quantity,
     greeks      |-> [delta |-> o.delta, gamma |-> o.gamma, theta |-> o.theta,
                      vega |-> o.vega, rho |-> o.rho],
     diagnostics |-> [grid_points |-> config.n_space, time_steps |-> config.n_time,
                      residual_norm |-> ret.residual_norm, runtime_ms |-> None,
                      boundary_spread |-> ret.boundary_spread,
                      s_max |-> ret.s_grid[Len(ret.s_grid)]],
     warnings    |-> Warnings(ret.residual_norm, ret.boundary_spread, o.fair_value)]

(***************************************************************************)
(* The service (main.py 433-435 and 291-427): a request body arrives, is   *)
(* validated and priced, one action per stage.  The base solve runs the    *)
(* stages of crank_nicolson_price one action each; the two try blocks of   *)
(* bump reprices are one action.  Where np.exp or pow may return either of *)
(* two doubles the action has a successor for each.                        *)
(***************************************************************************)
Unset == [set |-> FALSE]

TriIdle == [pc |-> "idle"]

FdIdle == [pc |-> "idle"]

OutInit ==
    [fair_value |-> Zero, delta |-> None, gamma |-> None, theta |-> None,
     vega |-> None, rho |-> None,               \* lines 333-334
     bump_size_sigma |-> Zero, price_up |-> Unset, price_down |-> Unset,
     raised |-> {},                             \* history: the reprices that raised
     result |-> Unset]

\* Where a call of crank_nicolson_price goes after the code before its loop:
\* out with the exception, into the loop, or past it (line 139).
AfterSetup(c) == IF IsRaised(c) THEN "raised" ELSE IF CnContinues(c) THEN "pin" ELSE "return"

\* Lines 433-435: the body is built into a PDERequest, which is handed to
\* solve_black_scholes_pde; a body that fails validation is answered with the error.
Receive ==
    /\ pc = "body"
    /\ \E request \in {PDERequest(rq)} :
          IF IsRaised(request)
          THEN /\ out' = [out EXCEPT !.result = request]
               /\ pc' = "rejected"
               /\ rq' = rq
          ELSE /\ rq' = request
               /\ pc' = "entry"
               /\ out' = out
    /\ UNCHANGED <<cfg, cn, returned, tri, fd>>

\* Lines 292-317 and 82-137: the configuration, then the base solve up to its loop.
Setup ==
    /\ pc = "entry"
    /\ cfg' = ResolveConfig(rq)
    /\ \E c \in CnSetup(rq.option_type, rq.spot, rq.strike, rq.expiry,
                         rq.risk_free_rate, rq.dividend_yield, rq.volatility,
                         cfg') :
          cn' = c /\ pc' = AfterSetup(c)
    /\ UNCHANGED <<rq, returned, out, tri, fd>>

\* Lines 140-152.
PinBoundaries ==
    /\ pc = "pin"
    /\ \E c \in CnPin(cn) : cn' = c
    /\ pc' = "rhs"
    /\ UNCHANGED <<rq, cfg, returned, out, tri, fd>>

\* Lines 154-163.
BuildRhs ==
    /\ pc = "rhs"
    /\ cn' = CnRhs(cn)
    /\ pc' = (IF IsRaised(cn') THEN "raised" ELSE "pin_next")
    /\ UNCHANGED <<rq, cfg, returned, out, tri, fd>>

\* Lines 165-166.
PinNext ==
    /\ pc = "pin_next"
    /\ cn' = CnPinNext(cn)
    /\ pc' = "solve"
    /\ UNCHANGED <<rq, cfg, returned, out, tri, fd>>

\* Lines 168-169.
SolveInterior ==
    /\ pc = "solve"
    /\ cn' = CnSolve(cn)
    /\ pc' = "capture"
    /\ UNCHANGED <<rq, cfg, returned, out, tri, fd>>

\* Lines 171-172.
Capture ==
    /\ pc = "capture"
    /\ cn' = CnCapture(cn)
    /\ pc' = "residual"
    /\ UNCHANGED <<rq, cfg, returned, out, tri, fd>>

\* Lines 174-182.
Residual ==
    /\ pc = "residual"
    /\ cn' = CnResidual(cn)
    /\ pc' = "swap"
    /\ UNCHANGED <<rq, cfg, returned, out, tri, fd>>

\* Line 184 and the loop test of line 139.
Swap ==
    /\ pc = "swap"
    /\ cn' = CnSwap(cn)
    /\ pc' = (IF CnContinues(cn') THEN "pin" ELSE "return")
    /\ UNCHANGED <<rq, cfg, returned, out, tri, fd>>

\* Lines 186-192.
Return ==
    /\ pc = "return"
    /\ returned' = CnReturn(cn)
    /\ pc' = "returned"
    /\ UNCHANGED <<rq, cfg, cn, out, tri, fd>>

\* Lines 302-322.
PriceAndSpaceGreeks ==
    /\ pc = "returned"
    /\ \E p \in {Price(rq, returned)} :
          out' = [out EXCEPT !.fair_value = p.fair_value, !.delta = p.delta, !.gamma = p.gamma]
    /\ pc' = "theta"
    /\ UNCHANGED <<rq, cfg, cn, returned, tri, fd>>

\* Lines 324-334.
ThetaAndBumps ==
    /\ pc = "theta"
    /\ out' = [out EXCEPT !.theta = Theta(rq, cfg, returned, out.fair_value),
                          !.bump_size_sigma = BumpSizeSigma(rq),
                          !.vega = None, !.rho = None]
    /\ pc' = "bump"
    /\ UNCHANGED <<rq, cfg, cn, returned, tri, fd>>

\* One handler for both try blocks: a failed vega reprice gives up rho too.
CatchBoth(o) == [out |-> [o EXCEPT !.vega = None, !.rho = None], pc |-> "report"]

\* Lines 360-361: the handler of the first try block.
CatchVega(o) == [out |-> [o EXCEPT !.vega = None], pc |-> "rho_up"]

\* Lines 387-388: the handler of the second try block.
CatchRho(o) == [out |-> [o EXCEPT !.rho = None], pc |-> "report"]

\* The reprice of request rq under config with the bumps given: the outcomes.
Reprice(request, config, bump_sigma, bump_rate) ==
    bump_and_price(request.option_type, request.spot, request.strike, request.expiry,
                   request.risk_free_rate, request.dividend_yield, request.volatility,
                   config, bump_sigma, bump_rate)

\* The prices among the outcomes of a reprice.
Prices(outcomes) == {p \in outcomes : ~IsRaised(p)}

\* Lines 336-361, the first try block, on the outcomes of its two reprices.  The
\* up reprice raises; or it returns and the down reprice raises; or both return
\* and vega is their central difference.  A reprice raises when its solve does
\* and, whatever its arithmetic, when it is stopped from outside (the
\* allocation of an array fails).
TryVega(o, ups, downs) ==
    {CatchVega([o EXCEPT !.raised = @ \cup {"vega_up"}])}
    \cup UNION {
        {CatchVega([o EXCEPT !.price_up = up, !.raised = @ \cup {"vega_down"}])}
        \cup {[out |-> [o EXCEPT !.price_up = up, !.price_down = down,
                                 !.vega = Central(up, down, o.bump_size_sigma)],
               pc  |-> "rho_up"] : down \in Prices(downs)} :
        up \in Prices(ups) }

\* Lines 363-388, the second try block, likewise.
TryRho(o, ups, downs) ==
    {CatchRho([o EXCEPT !.raised = @ \cup {"rho_up"}])}
    \cup UNION {
        {CatchRho([o EXCEPT !.price_up = up, !.raised = @ \cup {"rho_down"}])}
        \cup {[out |-> [o EXCEPT !.price_up = up, !.price_down = down,
                                 !.rho = Central(up, down, BumpSizeRate)],
               pc  |-> "report"] : down \in Prices(downs)} :
        up \in Prices(ups) }

\* Lines 336-388: the two try blocks.  Each of the four reprices is a whole
\* solve with outcomes of its own; the second block runs from wherever the
\* first one's handler or last statement leaves the function.
BumpGreeks ==
    /\ pc = "bump"
    /\ \E vega_up   \in {Reprice(rq, cfg, Some(out.bump_size_sigma), None)},
          vega_down \in {Reprice(rq, cfg, Some(FNeg(out.bump_size_sigma)), None)},
          rho_up    \in {Reprice(rq, cfg, None, Some(BumpSizeRate))},
          rho_down  \in {Reprice(rq, cfg, None, Some(FNeg(BumpSizeRate)))} :
          \E v \in TryVega(out, vega_up, vega_down) :
             \E r \in (IF v.pc = "rho_up" THEN TryRho(v.out, rho_up, rho_down) ELSE {v}) :
                out' = r.out /\ pc' = r.pc
    /\ UNCHANGED <<rq, cfg, cn, returned, tri, fd>>

\* Lines 390-427.
ReportResult ==
    /\ pc = "report"
    /\ out' = [out EXCEPT !.result = Report(rq, cfg, returned, out)]
    /\ pc' = "done"
    /\ UNCHANGED <<rq, cfg, cn, returned, tri, fd>>

Next ==
    \/ Receive \/ Setup \/ PinBoundaries \/ BuildRhs \/ PinNext \/ SolveInterior \/ Capture
    \/ Residual \/ Swap \/ Return \/ PriceAndSpaceGreeks \/ ThetaAndBumps
    \/ BumpGreeks \/ ReportResult

(***************************************************************************)
(* The bodies that arrive.  Scenario 1 of the specification is an          *)
(* at-the-money call, S0 = K = 100, T = 1, r = 0.05, q = 0, sigma = 0.20,  *)
(* with s_max_multiplier left to its default.  The default grid            *)
(* (400 x 800) is beyond what TLC can march through; the body asks for the *)
(* smallest grid_size the request model accepts and for 53 time steps, the *)
(* count near the smallest accepted at which the solve of the request has  *)
(* one outcome and its rate reprices have few (16 and 4).  Its symbol is   *)
(* "aapl".  A second body is a put with every optional field given, on the *)
(* smallest grid accepted; its symbol has a sharp s (code point 223),      *)
(* which str.upper() turns into two characters.  The other bodies are      *)
(* scenario 1 with one or two fields changed to values the request model   *)
(* rejects ("CALL" and "buy" for the option type).                         *)
(***************************************************************************)
Scenario1 ==
    [symbol |-> <<97, 97, 112, 108>>, option_type |-> Call,
     spot |-> Int2Num(100), strike |-> Int2Num(100), expiry |-> One,
     volatility |-> Frac(1, 5), risk_free_rate |-> Frac(1, 20),
     dividend_yield |-> None, quantity |-> None,
     grid_size |-> Some(MinGridSize), time_steps |-> Some(MinTimeSteps + 3),
     s_max_multiplier |-> None]

PutBody ==
    [symbol |-> <<115, 116, 114, 97, 223, 101>>, option_type |-> Put,
     spot |-> Int2Num(90), strike |-> Int2Num(110), expiry |-> Frac(1, 2),
     volatility |-> Frac(3, 10), risk_free_rate |-> Frac(2, 25),
     dividend_yield |-> Some(Frac(1, 50)), quantity |-> Some(7),
     grid_size |-> Some(MinGridSize), time_steps |-> Some(MinTimeSteps),
     s_max_multiplier |-> Some(Frac(5, 2))]

\* Values the request model rejects, by field.
Rejected ==
    { <<"symbol", <<>>>>,
      <<"option_type", <<67, 65, 76, 76>>>>, <<"option_type", <<98, 117, 121>>>>,
      <<"spot", Zero>>, <<"strike", Int2Num(-100)>>, <<"expiry", Zero>>,
      <<"volatility", Frac(-1, 5)>>,
      <<"quantity", Some(0)>>,
      <<"grid_size", Some(MinGridSize - 1)>>, <<"grid_size", Some(MaxGridSize + 1)>>,
      <<"time_steps", Some(MinTimeSteps - 1)>>, <<"time_steps", Some(MaxTimeSteps + 1)>>,
      <<"s_max_multiplier", Some(Int2Num(2))>>, <<"s_max_multiplier", Some(Frac(41, 2))>> }

Bodies ==
    {Scenario1, PutBody}
    \cup {[Scenario1 EXCEPT ![c[1]] = c[2]] : c \in Rejected}
    \cup {[Scenario1 EXCEPT ![c[1]] = c[2], ![d[1]] = d[2]] : c \in Rejected, d \in Rejected}

Init ==
    /\ rq \in Bodies
    /\ pc = "body"
    /\ cfg = Unset
    /\ cn = Unset
    /\ returned = Unset
    /\ out = OutInit
    /\ tri = TriIdle
    /\ fd = FdIdle

Spec == Init /\ [][Next]_vars

(***************************************************************************)
(* The specification of crank_nicolson_price alone: a call with a          *)
(* SolverConfig of the caller's choosing, which nothing validates, then    *)
(* the stages of the loop.                                                 *)
(***************************************************************************)
\* The largest numbers of cells and of time steps drawn.
MaxSpace == 3

MaxTime == 3

\* 2^600, a spot whose grid step has no square among the doubles.
Huge == [s |-> 0, e |-> 548, m |-> <<0, 0, 0, 1024>>]

\* Market data: spot, strike, expiry, volatility, rate, dividend yield,
\* s_max_multiplier.  With the fifth np.exp(-r * tau) has two outcomes on a grid
\* of two time steps; with the sixth d_s ** 2 has two on a grid of three cells.
\* With the seventh (a rate of 800) np.exp(-r * tau) is too small for a double
\* at expiry and the boundary value there is 0.0; with the eighth d_s ** 2
\* raises OverflowError.  Every market has a finite s_max: with an infinite
\* one the grid's first node is 0 * inf, a NaN.
Markets ==
    { <<Int2Num(100), Int2Num(100), One, Frac(1, 5), Frac(1, 20), Zero, Int2Num(6)>>,
      <<One, One, One, Int2Num(2), Zero, Zero, Frac(5, 2)>>,
      <<Int2Num(90), Int2Num(110), Frac(1, 2), Frac(3, 10), Frac(3, 100), Frac(1, 50),
        Frac(21, 10)>>,
      <<Int2Num(100), Int2Num(100), One, Frac(1, 5), Frac(1, 20), Zero, Frac(1, 2)>>,
      <<Int2Num(100), Int2Num(100), Frac(1, 4), Frac(1, 5), Frac(91, 1000), Zero, Int2Num(6)>>,
      <<Frac(14403, 100), Int2Num(100), One, Frac(1, 5), Frac(1, 20), Zero, Int2Num(6)>>,
      <<Int2Num(100), Int2Num(100), One, Frac(1, 5), Int2Num(800), Zero, Int2Num(6)>>,
      <<Huge, Int2Num(100), One, Frac(1, 5), Frac(1, 20), Zero, Int2Num(6)>> }

\* The grids: every n_space in -1..max_space with every n_time in -1..max_time,
\* and one step on the smallest grid a request may ask for.
Grids(max_space, max_time) ==
    ((-1..max_space) \X (-1..max_time)) \cup {<<MinGridSize, 1>>}

CnInputs(max_space, max_time) ==
    { [option_type |-> kind, spot |-> m[1], strike |-> m[2], expiry |-> m[3],
       volatility |-> m[4], risk_free_rate |-> m[5], dividend_yield |-> m[6],
       config |-> [n_space |-> g[1], n_time |-> g[2], s_max_multiplier |-> m[7]]] :
        kind \in {Call, Put}, m \in Markets, g \in Grids(max_space, max_time) }

InitCn ==
    /\ cn \in CnInputs(MaxSpace, MaxTime)
    /\ pc = "call"
    /\ rq = Unset /\ cfg = Unset /\ returned = Unset /\ out = Unset
    /\ tri = TriIdle /\ fd = FdIdle

\* Lines 82-137: the call, up to its loop.
CnCall ==
    /\ pc = "call"
    /\ \E c \in CnSetup(cn.option_type, cn.spot, cn.strike, cn.expiry, cn.risk_free_rate,
                         cn.dividend_yield, cn.volatility, cn.config) :
          cn' = c /\ pc' = AfterSetup(c)
    /\ UNCHANGED <<rq, cfg, returned, out, tri, fd>>

NextCn ==
    \/ CnCall \/ PinBoundaries \/ BuildRhs \/ PinNext \/ SolveInterior \/ Capture
    \/ Residual \/ Swap \/ Return

SpecCn == InitCn /\ [][NextCn]_vars

(***************************************************************************)
(* The specification of finite_difference alone: one call on a uniform     *)
(* grid of n_space cells with values drawn per node, a spot strictly       *)
(* inside the grid at every quarter of a cell, and an order.               *)
(***************************************************************************)
MaxFdSpace == 3

NodeVals == {Zero, One, Int2Num(3)}

CellSizes == {One, Frac(1, 2)}

\* The calls on grids of 1..max_space cells.
FdInputs(max_space) ==
    UNION {
      { [values |-> v, grid |-> Linspace(FMul(Int2Num(n), d), n),
         spot |-> FMul(Frac(k, 4), d), order |-> order] :
          v \in [1..(n + 1) -> NodeVals], d \in CellSizes, k \in 1..(4 * n - 1),
          order \in {1, 2, 3} } : n \in 1..max_space }

InitFd ==
    /\ \E inp \in FdInputs(MaxFdSpace) : fd = [pc |-> "call", inp |-> inp]
    /\ rq = Unset /\ pc = "idle" /\ cfg = Unset /\ cn = Unset /\ returned = Unset
    /\ out = Unset /\ tri = TriIdle

\* A call of finite_difference; idx is the node index it centred on (lines 245-246).
FdCall ==
    /\ fd.pc = "call"
    /\ fd' = [pc |-> "done", inp |-> fd.inp,
              idx |-> FdIndex(fd.inp.values, fd.inp.grid, fd.inp.spot),
              result |-> finite_difference(fd.inp.values, fd.inp.grid, fd.inp.spot, fd.inp.order)]
    /\ UNCHANGED <<rq, pc, cfg, cn, returned, out, tri>>

NextFd == FdCall

SpecFd == InitFd /\ [][NextFd]_vars

(***************************************************************************)
(* The specification of solve_tridiagonal alone: a call on a system drawn  *)
(* from small sets, then one action per loop iteration.                    *)
(***************************************************************************)
\* The largest system size drawn.
MaxN == 3

\* A magnitude below the pivot floor: 5e-13.
Tiny == FDiv(Int2Num(5), FMul(Int2Num(10000000), Int2Num(1000000)))

\* Diagonal entries: a zero and a tiny negative pivot (both below the floor), 1
\* (with unit neighbours the eliminated pivot 1 - 1*1 is zero) and 3 (dominant).
DiagVals == {Zero, FNeg(Tiny), One, Int2Num(3)}

LowerVals == {Int2Num(-1), One}

UpperVals == {Zero, One}

RhsScales == {-2}

\* The entry put in lower[0] and upper[n-1], which the solver never reads.
Unused == Int2Num(7)

\* The systems of 0..max_n rows.
TriInputs(max_n) ==
    UNION {
      { [lower |-> [i \in 1..n |-> IF i = 1 THEN Unused ELSE lo[i]],
         diag  |-> dg,
         upper |-> [i \in 1..n |-> IF i = n THEN Unused ELSE up[i]],
         rhs   |-> [i \in 1..n |-> Int2Num(b * i)]] :
          dg \in [1..n -> DiagVals], lo \in [2..n -> LowerVals],
          up \in [1..(n - 1) -> UpperVals], b \in RhsScales } : n \in 0..max_n }

InitTri ==
    /\ \E inp \in TriInputs(MaxN) : tri = [pc |-> "call", inp |-> inp]
    /\ rq = Unset /\ pc = "idle" /\ cfg = Unset /\ cn = Unset /\ returned = Unset
    /\ out = Unset /\ fd = FdIdle

TriCall ==
    /\ tri.pc = "call"
    /\ tri' = TriStart(tri.inp.lower, tri.inp.diag, tri.inp.upper, tri.inp.rhs)
    /\ UNCHANGED <<rq, pc, cfg, cn, returned, out, fd>>

TriForwardStep ==
    /\ tri.pc = "forward"
    /\ tri' = TriForward(tri)
    /\ UNCHANGED <<rq, pc, cfg, cn, returned, out, fd>>

TriBackStep ==
    /\ tri.pc = "back"
    /\ tri' = TriBack(tri)
    /\ UNCHANGED <<rq, pc, cfg, cn, returned, out, fd>>

NextTri == TriCall \/ TriForwardStep \/ TriBackStep

SpecTri == InitTri /\ [][NextTri]_vars

(***************************************************************************)
(* Properties of solve_tridiagonal (under SpecTri).                        *)
(***************************************************************************)
\* Row i (1-based) of T*x for the system of a finished call; lower[0] and
\* upper[n-1] are not part of T.
RowOf(st, i) ==
    FAdd(FAdd(IF i > 1 THEN FMul(st.lower[i], st.solution[i - 1]) ELSE Zero,
              FMul(st.diag[i], st.solution[i])),
         IF i < st.n THEN FMul(st.upper[i], st.solution[i + 1]) ELSE Zero)

\* |diag[i]| >= |lower[i]| + |upper[i]| on every row.
DiagonallyDominant(st) ==
    \A i \in 1..st.n :
        FLeq(FAdd(IF i > 1 THEN FAbs(st.lower[i]) ELSE Zero,
                  IF i < st.n THEN FAbs(st.upper[i]) ELSE Zero),
             FAbs(st.diag[i]))

\* No division of the sweep had its denominator replaced by the floor.
NoGuardFired(st) == \A k \in 1..Len(st.pivots) : st.pivots[k].used = st.pivots[k].raw

\* The tolerance of the specification's round trip: 1e-10.
RoundTrip == FDiv(One, FMul(Int2Num(100000), Int2Num(100000)))

\* C6: when solve_tridiagonal returns on a diagonally dominant system of size
\* n >= 1 in which no pivot fell below the 1e-12 guard, the returned x satisfies
\* every row of T*x = b: in the doubles the program computes in, every row of
\* T*x is within 1e-10 of b.
C6_SolvesSystem ==
    (tri.pc = "done" /\ tri.n >= 1 /\ DiagonallyDominant(tri) /\ NoGuardFired(tri))
        => \A i \in 1..tri.n : FLess(FAbs(FSub(RowOf(tri, i), tri.rhs[i])), RoundTrip)

\* A finished call on a dominant system of three rows with off-diagonal entries,
\* a non-zero right-hand side and a solution that is not a row of integers.
C6_Witness ==
    /\ tri.pc = "done" /\ tri.n = 3 /\ DiagonallyDominant(tri) /\ NoGuardFired(tri)
    /\ tri.upper[1] # Zero /\ tri.upper[2] # Zero
    /\ \A i \in 1..3 : tri.solution[i] # Zero
    /\ \E i \in 1..3 : tri.solution[i].m[1] # 0

\* What lines 211-212 and 219-220 promise of a denominator: raw itself when its
\* magnitude is at least 1e-12, else +1e-12 for raw >= 0 and -1e-12 for raw < 0.
Guarded(raw, used) ==
    /\ FLeq(PivotFloor, FAbs(used))
    /\ IF FLess(FAbs(raw), PivotFloor)
       THEN used = (IF Sign(raw) >= 0 THEN PivotFloor ELSE FNeg(PivotFloor))
       ELSE used = raw

\* C7: solve_tridiagonal never divides by a denominator of magnitude below
\* 1e-12: every division of the sweep uses the raw pivot, or +1e-12 in place of
\* a raw pivot in [0, 1e-12) and -1e-12 in place of one in (-1e-12, 0); the call
\* always runs to its return, with a vector of length n (empty when n = 0).
C7_GuardedPivots ==
    /\ tri.pc \in {"call", "forward", "back", "done"}
    /\ tri.pc \in {"forward", "back", "done"} =>
          /\ \A k \in 1..Len(tri.pivots) : Guarded(tri.pivots[k].raw, tri.pivots[k].used)
          /\ tri.pc = "forward" => Len(tri.pivots) = tri.i
          /\ tri.pc \in {"back", "done"} => Len(tri.pivots) = tri.n
    /\ tri.pc = "done" =>
          /\ Len(tri.solution) = Len(tri.diag)
          /\ Len(tri.diag) = 0 => tri.solution = <<>>

\* A finished call on a singular system in which one pivot was zero and became
\* +1e-12 and another was negative and tiny and became -1e-12.
C7_Witness ==
    /\ tri.pc = "done" /\ tri.n >= 2
    /\ \E k \in 1..Len(tri.pivots) :
          tri.pivots[k].raw = Zero /\ tri.pivots[k].used = PivotFloor
    /\ \E k \in 1..Len(tri.pivots) :
          Sign(tri.pivots[k].raw) < 0 /\ tri.pivots[k].used = FNeg(PivotFloor)

(***************************************************************************)
(* Properties of crank_nicolson_price (under SpecCn) and of                *)
(* solve_black_scholes_pde (under Spec).                                   *)
(***************************************************************************)
\* The solver of the current step has written v_next and the swap has not happened.
StepSolved == pc \in {"capture", "residual", "swap"}

\* crank_nicolson_price has returned.
Returned ==
    pc \in {"returned", "theta", "bump", "report", "done"}

InSolve == pc \in {"pin", "rhs", "pin_next", "solve", "capture", "residual", "swap", "return"}

\* The Boundary Oracle of the specification: <<V(0, tau), V(s_max, tau)>>, in
\* every pair of doubles that the exponentials may come out as.
Oracle(kind, s_max, strike, r, q, tau) ==
    IF kind = Call
    THEN {<<Zero, FSub(FMul(s_max, exp_q), FMul(strike, exp_r))>> :
             exp_q \in Exp(FNeg(FMul(q, tau))), exp_r \in Exp(FNeg(FMul(r, tau)))}
    ELSE {<<FMul(strike, exp_r), Zero>> : exp_r \in Exp(FNeg(FMul(r, tau)))}

OracleOf(c, tau) == Oracle(c.option_type, c.s_max, c.strike, c.r, c.q, tau)

Ends(v) == <<v[1], v[Len(v)]>>

\* What rounding may move a double by, relative to its size: 1e-12.
Rounding == FDiv(One, FMul(Int2Num(1000000), Int2Num(1000000)))

\* x is y up to rounding.
Near(x, y) == FLeq(FAbs(FSub(x, y)), FMul(Rounding, FAbs(y)))

NearPair(a, b) == Near(a[1], b[1]) /\ Near(a[2], b[2])

\* C1: pricing scenario 1 with the default s_max_multiplier returns an empty
\* warnings list.
C1_Scenario1NoWarnings ==
    (pc = "done" /\ rq = PDERequest(Scenario1)) => out.result.warnings = <<>>

\* C2: the step whose output is captured as the first-step snapshot is the one
\* that produces tau' = T - dtau, so that the snapshot and the returned solution
\* (tau = T) are one dtau apart.
C2_FirstStepOneStepFromToday ==
    ((InSolve \/ Returned) /\ cn.n_time >= MinTimeSteps /\ cn.captured_tau # <<>>)
        => Near(cn.captured_tau[1], FSub(cn.expiry, cn.d_tau))

VegaReprices == {"vega_up", "vega_down"}

RhoReprices == {"rho_up", "rho_down"}

\* C3: whichever bump reprices raise, the call returns: vega is absent exactly
\* when a volatility reprice raised, rho is absent exactly when a rate reprice
\* raised, and the result carries the base solve's fair_value, price, delta,
\* gamma and theta.
C3_BumpFailuresIsolated ==
    /\ pc # "raised"
    /\ pc = "done" =>
          /\ out.result.greeks.vega.some = (out.raised \cap VegaReprices = {})
          /\ out.result.greeks.rho.some = (out.raised \cap RhoReprices = {})
          /\ out.result.fair_value = interpolate_value(returned.s_grid, returned.solution, rq.spot)
          /\ out.result.price = FMul(out.result.fair_value, Int2Num(rq.quantity))
          /\ out.result.greeks.delta = finite_difference(returned.solution, returned.s_grid, rq.spot, 1)
          /\ out.result.greeks.gamma = finite_difference(returned.solution, returned.s_grid, rq.spot, 2)
          /\ out.result.greeks.theta = Theta(rq, cfg, returned, out.result.fair_value)
          /\ out.result.greeks.theta.some

\* A result after a volatility reprice raised and no rate reprice did: rho is
\* there, vega is not.
C3_Witness ==
    /\ pc = "done" /\ out.raised = {"vega_up"}
    /\ out.result.greeks.rho.some /\ ~out.result.greeks.vega.some

\* C4: after the solve of every step k the new snapshot holds, at index 0 and
\* index N_S, the oracle's values at the tau' of the step (one of the pairs the
\* exponentials may give), which is (k+1)*dtau up to rounding, and the solver's
\* output at indices 1..N_S-1 only; it still does once swapped in; and the
\* returned solution holds the oracle's values at the last tau', which is T up
\* to rounding.
C4_BoundariesPinned ==
    /\ StepSolved =>
          /\ Ends(cn.heap[cn.v_next]) \in OracleOf(cn, cn.tau_next)
          /\ Near(cn.tau_next, FMul(Int2Num(cn.step + 1), cn.d_tau))
          /\ \A o \in OracleOf(cn, FMul(Int2Num(cn.step + 1), cn.d_tau)) :
                NearPair(Ends(cn.heap[cn.v_next]), o)
          /\ \A i \in 1..(cn.n_space - 1) :
                cn.heap[cn.v_next][i + 1] =
                    solve_tridiagonal(cn.lower, cn.diag, cn.upper, cn.rhs_vector)[i]
    /\ (pc \in {"pin", "return"} /\ cn.step >= 1) =>
          /\ Ends(cn.heap[cn.v_curr]) \in OracleOf(cn, cn.tau_next)
          /\ Near(cn.tau_next, FMul(Int2Num(cn.step), cn.d_tau))
    /\ (pc = "returned" /\ cn.n_time >= 1) =>
          /\ Ends(returned.solution) \in OracleOf(cn, cn.tau_next)
          /\ Near(cn.tau_next, cn.expiry)
          /\ \A o \in OracleOf(cn, cn.expiry) : NearPair(Ends(returned.solution), o)

\* A put with a rate, past its second solve, at a tau' where np.exp(-r * tau')
\* has two outcomes: the lower boundary value has moved since the first solve
\* and differs from the solver's neighbouring output.
C4_Witness ==
    /\ pc = "capture" /\ cn.step >= 1 /\ cn.option_type = Put
    /\ cn.r # Zero /\ Cardinality(OracleOf(cn, cn.tau_next)) = 2
    /\ cn.heap[cn.v_next][1] # cn.heap[cn.v_curr][1]
    /\ cn.heap[cn.v_next][1] # cn.heap[cn.v_next][2]

\* The infinity norm of A*v_next - rhs_adjusted at the current step.
StepResidual(c) ==
    NormInf([i \in 1..(c.n_space - 1) |->
               FSub(FAdd(FAdd(FMul(c.A[i], c.heap[c.v_next][i]),
                              FMul(c.B[i], c.heap[c.v_next][i + 1])),
                         FMul(c.C[i], c.heap[c.v_next][i + 2])),
                    c.rhs_vector[i])])

\* C5: residual_norm starts at 0; after each step it is at least what it was
\* and at least that step's residual; what is returned, and reported in the
\* diagnostics, is the largest of the N_T per-step residuals.
C5_ResidualAccumulates ==
    /\ (InSolve \/ Returned) =>
          /\ Len(cn.accumulated) = Len(cn.norms)
          /\ cn.residual_norm = (IF cn.norms = <<>> THEN Zero
                                 ELSE cn.accumulated[Len(cn.accumulated)])
          /\ \A k \in 1..Len(cn.norms) :
                /\ FLeq(IF k = 1 THEN Zero ELSE cn.accumulated[k - 1], cn.accumulated[k])
                /\ FLeq(cn.norms[k], cn.accumulated[k])
                /\ \E j \in 1..k : cn.accumulated[k] = cn.norms[j]
    /\ pc = "swap" => /\ Len(cn.norms) = cn.step + 1
                      /\ cn.norms[cn.step + 1] = StepResidual(cn)
    /\ Returned => /\ Len(cn.norms) = cn.n_time
                   /\ returned.residual_norm = cn.accumulated[cn.n_time]
    /\ pc = "done" => out.result.diagnostics.residual_norm = cn.accumulated[cn.n_time]

\* A result whose residual_norm is the residual of an earlier step, a later
\* step having had a smaller one.
C5_Witness ==
    /\ pc = "done" /\ cn.n_time >= 3
    /\ \E k \in 1..(cn.n_time - 1) : FLess(cn.norms[k + 1], cn.norms[k])
    /\ FLess(cn.norms[cn.n_time], out.result.diagnostics.residual_norm)

\* The call has the market data and the grid of a valid request, whatever the
\* number of cells: S0 > 0, K > 0 and s_max_multiplier in (2, 20].
ValidMarket(c) ==
    /\ FLess(Zero, c.spot) /\ FLess(Zero, c.strike)
    /\ FLess(MultiplierFloor, c.config.s_max_multiplier)
    /\ FLeq(c.config.s_max_multiplier, MultiplierCap)

\* C9: at the top of step 0 of a call with a valid request's data the snapshot
\* holds, at index 0 and index N_S, the oracle's pair at tau = 0 (call: 0 and
\* s_max - K; put: K and 0), and the pin of step 0 leaves the snapshot as the
\* payoff made it.
C9_PayoffMeetsBoundary ==
    (pc \in {"pin", "rhs"} /\ cn.step = 0 /\ ValidMarket(cn)) =>
        /\ Ends(cn.heap[cn.v_curr]) =
              (IF cn.option_type = Call THEN <<Zero, FSub(cn.s_max, cn.strike)>>
               ELSE <<cn.strike, Zero>>)
        /\ OracleOf(cn, Zero) = {Ends(cn.heap[cn.v_curr])}
        /\ cn.heap[cn.v_curr] =
              [i \in 1..(cn.n_space + 1) |->
                  IF cn.option_type = Call
                  THEN FMax(FSub(cn.s_grid[i], cn.strike), Zero)
                  ELSE FMax(FSub(cn.strike, cn.s_grid[i]), Zero)]
        /\ cn.s_grid[1] = Zero /\ cn.s_grid[cn.n_space + 1] = cn.s_max

\* A call on the smallest grid a request may ask for, just past the pin of step
\* 0, its spot below its strike, with a non-zero value at the upper boundary.
C9_Witness ==
    /\ pc = "rhs" /\ cn.step = 0 /\ cn.option_type = Call /\ ValidMarket(cn)
    /\ cn.n_space = MinGridSize
    /\ FLess(cn.spot, cn.strike)
    /\ cn.heap[cn.v_curr][cn.n_space + 1] # Zero

\* C10: the first-step snapshot is captured once, into an array that is
\* neither work buffer, and keeps the contents v_next had right after step 0;
\* the call returns those contents as first_step and, as solution, the
\* buffer the last step wrote.
C10_SnapshotIndependent ==
    /\ (InSolve \/ Returned) =>
          /\ Len(cn.captured) = (IF cn.step >= 1 \/ pc \in {"residual", "swap"} THEN 1 ELSE 0)
          /\ (cn.first_step_values = NoArray) = (cn.captured = <<>>)
          /\ cn.first_step_values # NoArray =>
                /\ cn.first_step_values \notin {cn.v_curr, cn.v_next}
                /\ cn.heap[cn.first_step_values] = cn.captured[1]
    /\ (Returned /\ cn.n_time >= 1) =>
          /\ returned.first_step = cn.captured[1]
          /\ cn.last_written = cn.v_curr
          /\ returned.solution = cn.heap[cn.last_written]

\* A returned call of three steps or more: the buffer the snapshot was copied
\* from has been written again since, and first_step still differs from it
\* and from the solution.
C10_Witness ==
    /\ pc = "returned" /\ cn.n_time >= 3
    /\ \A id \in {cn.v_curr, cn.v_next} : cn.heap[id] # returned.first_step
    /\ returned.first_step = cn.captured[1]

(***************************************************************************)
(* Properties of finite_difference (under SpecFd).                         *)
(***************************************************************************)
\* Interior node j (0-based, as in the code) of the grid of a call.
Node(f, j) == f.inp.grid[j + 1]

Distance(f, j) == FAbs(FSub(Node(f, j), f.inp.spot))

LastInterior(f) == Len(f.inp.grid) - 2

\* Delta (order 1) and Gamma (order 2) as the specification writes them,
\* centred on node idx.
Differences(f, idx) ==
    IF f.inp.order = 1
    THEN FDiv(FSub(f.inp.values[idx + 2], f.inp.values[idx]),
              FMul(Int2Num(2), FSub(f.inp.grid[2], f.inp.grid[1])))
    ELSE FDiv(FAdd(FSub(f.inp.values[idx + 2], FMul(Int2Num(2), f.inp.values[idx + 1])),
                   f.inp.values[idx]),
              FMul(FSub(f.inp.grid[2], f.inp.grid[1]), FSub(f.inp.grid[2], f.inp.grid[1])))

\* A finished call for Delta or Gamma on a grid with an interior node.
FdDone == fd.pc = "done" /\ Len(fd.inp.values) >= 3 /\ fd.inp.order \in {1, 2}

\* The interior node the differences are centred on is at least as near the
\* spot as every interior node.
CentreIsNearest(f) ==
    \A j \in 1..LastInterior(f) : FLeq(Distance(f, f.idx), Distance(f, j))

\* C8 as stated: the index finite_difference centres on is an interior node
\* nearest the spot, and Delta and Gamma are the central differences there.
C8_NearestNode ==
    FdDone =>
        /\ CentreIsNearest(fd)
        /\ fd.result = Some(Differences(fd, fd.idx))

\* C8, amended: the index finite_difference centres on is the first interior
\* node at or above the spot (the last interior node when none is), which is
\* less than one grid step from the spot.  It is a nearest interior node
\* exactly when it is node 1 or the spot is no nearer to node idx - 1 than to
\* node idx; otherwise node idx - 1 is the nearest interior node.  Delta and
\* Gamma are the central differences at idx in either case.
C8_NodeAtOrAboveSpot ==
    FdDone =>
        /\ fd.idx \in 1..LastInterior(fd)
        /\ IF \E j \in 1..LastInterior(fd) : FLeq(fd.inp.spot, Node(fd, j))
           THEN /\ FLeq(fd.inp.spot, Node(fd, fd.idx))
                /\ \A j \in 1..(fd.idx - 1) : FLess(Node(fd, j), fd.inp.spot)
           ELSE fd.idx = LastInterior(fd)
        /\ FLess(Distance(fd, fd.idx), FSub(fd.inp.grid[2], fd.inp.grid[1]))
        /\ CentreIsNearest(fd) <=>
               \/ fd.idx = 1
               \/ FLeq(Distance(fd, fd.idx), Distance(fd, fd.idx - 1))
        /\ ~CentreIsNearest(fd) =>
               \A j \in 1..LastInterior(fd) :
                   FLeq(Distance(fd, fd.idx - 1), Distance(fd, j))
        /\ fd.result = Some(Differences(fd, fd.idx))

\* A call whose spot lies in the lower half of a cell between two interior
\* nodes: the node below is nearer than the one the differences are centred on.
C8_Witness ==
    /\ FdDone /\ Len(fd.inp.values) >= 4 /\ fd.idx >= 2
    /\ FLess(Distance(fd, fd.idx - 1), Distance(fd, fd.idx))
    /\ fd.result.some /\ fd.result.val # Zero
====
